---- MODULE Spec2Model ----
(***************************************************************************)
(* airport-api-service: the flight-and-ticket consistency subsystem.       *)
(*                                                                         *)
(* The persisted tables Order, Ticket and Flight (airport/models.py), the  *)
(* serializers that validate and create them (airport/serializers.py) and  *)
(* the view sets that expose them (airport/views.py).                      *)
(*                                                                         *)
(*   Spec          order / ticket requests, one request at a time          *)
(*   SpecValidate  Ticket.validate_ticket on a grid of inputs              *)
(*   SpecFlight    the flight ledger: POST /flights and Flight.save        *)
(*   SpecConc      two POST /orders requests interleaved in the store      *)
(*   SpecQuery     GET /flights and GET /flights/{id} with query parameters *)
(*   SpecPage      FlightPagination on result lists                        *)
(*   SpecFleet     the airplanes, written by staff, with flights and orders *)
(*   SpecOwner     POST /orders with a request body that names an owner     *)
(***************************************************************************)
EXTENDS Integers, Sequences, FiniteSets, Bags, TLC

VARIABLES
    airplanes,    \* Airplane table: id -> [name, rows, seats_in_row, airplane_type, image]
    flights,      \* Flight table: id -> [route, airplane, departure_time, arrival_time, crew]
    orders,       \* Order table: id -> [user]
    tickets,      \* Ticket table: a bag of rows [row, seat, flight, order]
    nextOrderId,  \* the Order table's auto-increment id
    last,         \* the request handled last and the response given to it
    probe,        \* SpecValidate: the arguments and result of validate_ticket
    txn           \* SpecConc: the requests in flight, each with its open transaction

vars == <<airplanes, flights, orders, tickets, nextOrderId, last, probe, txn>>

----------------------------------------------------------------------------
(* Bounds of the model.                                                    *)

\* Orders ever created (the auto-increment id stops there).
MaxOrders == 2
\* Ticket entries in one POST /orders payload.
MaxLen == 2
\* Largest rows / seats_in_row of an airplane passed to validate_ticket in SpecValidate.
MaxDim == 3
\* Largest time stamp of a flight.
MaxTime == 2
\* Flights ever created in SpecFlight.
MaxFlights == 2
MaxAirplanes == 3
\* The ticks of the clock in a calendar day.
TicksPerDay == 2
\* The longest result list that is paginated.
MaxRows == 45

----------------------------------------------------------------------------
(* Reference data: users, fleet, routes, crew.                             *)

Anonymous == "anonymous"
Users == {"user", "staff"}
Requesters == Users \cup {Anonymous}
\* The callers who cannot write flights or airplanes.
NonStaff == Requesters \ {"staff"}

\* is_authenticated / is_staff of request.user
is_authenticated(u) == u \in Users
is_staff(u) == u = "staff"

\* Text is a sequence of characters; the alphabet has two letters in both cases.
Lower(c) == CASE c = "A" -> "a" [] c = "B" -> "b" [] c = "X" -> "x" [] OTHER -> c

\* str.lower
lower(text) == [i \in 1..Len(text) |-> Lower(text[i])]

\* The lookup field__icontains=value: value occurs in field, letter case set aside.
icontains_exact(field, value) == lower(field) = lower(value)

icontains(field, value) ==
    \E i \in 0..(Len(field) - Len(value)) :
        SubSeq(lower(field), i + 1, i + Len(value)) = lower(value)

\* django.utils.text.slugify on the names of the model: letters to lower case.
slugify(text) == lower(text)

\* Airport table, by id.
Airports ==
    [a \in {1, 2} |->
        IF a = 1 THEN [name |-> <<"A", "b">>, closest_big_city |-> <<"x", "a">>]
                 ELSE [name |-> <<"b", "a">>, closest_big_city |-> <<"X", "b">>]]

\* AirplaneType table, by id.
AirplaneTypes == {1}

\* The fleet the flights of the ledger fly: two airplanes of different seating grids.
Fleet ==
    [a \in {1, 2} |->
        IF a = 1 THEN [name |-> <<"a", "B">>, rows |-> 2, seats_in_row |-> 3,
                       airplane_type |-> 1, image |-> <<>>]
                 ELSE [name |-> <<"b", "b">>, rows |-> 3, seats_in_row |-> 2,
                       airplane_type |-> 1, image |-> <<>>]]

\* Airplane.capacity
capacity(airplane) == airplane.rows * airplane.seats_in_row

----------------------------------------------------------------------------
(* Ticket.validate_ticket: the first failing attribute, or "ok".           *)

validate_ticket_inclusive(row, seat, airplane) ==
    IF ~(0 < row /\ row <= airplane.rows) THEN "row"
    ELSE IF ~(0 < seat /\ seat <= airplane.seats_in_row) THEN "seat"
    ELSE "ok"

validate_ticket(row, seat, airplane) ==
    IF ~(0 < row /\ row < airplane.rows) THEN "row"
    ELSE IF ~(0 < seat /\ seat < airplane.seats_in_row) THEN "seat"
    ELSE "ok"

----------------------------------------------------------------------------
(* The tables as the ORM reads them.                                       *)

\* Route table and Crew table, by id.
Routes == {1, 2}
Crews == {1, 2}

\* Route rows: route 1 flies from airport 1 to airport 2, route 2 back.
RouteTable == [r \in Routes |-> [source |-> r, destination |-> 3 - r]]

\* The flights the order subsystem sells seats on: one per airplane.
FlightLedger ==
    [f \in {1, 2} |->
        [route |-> f, airplane |-> f, departure_time |-> f - 1,
         arrival_time |-> f, crew |-> {f}]]

\* flight.tickets: the Ticket rows whose flight is f (related_name="tickets").
FlightTickets(T, f) == [t \in {x \in DOMAIN T : x.flight = f} |-> T[t]]

\* order.tickets: the Ticket rows whose order is id.
OrderTickets(T, id) == [t \in {x \in DOMAIN T : x.order = id} |-> T[t]]

\* A delete that empties the Ticket table, whichever order is deleted.
CascadeDelete_every_ticket(T, id) == EmptyBag

\* Ticket.order with on_delete=DO_NOTHING: the rows of a deleted order stay.
CascadeDelete_nothing(T, id) == T

\* on_delete=CASCADE of Ticket.order: what is left of T when order id is deleted.
CascadeDelete(T, id) == [t \in {x \in DOMAIN T : x.order # id} |-> T[t]]

\* A Ticket table without unique_together: no lookup ever finds the seat taken.
SeatTaken_no_constraint(T, row, seat, flight) == FALSE

\* unique_together ["row", "seat", "flight"] as a lookup:
\* Ticket.objects.filter(row=, seat=, flight=).exists()
SeatTaken(T, row, seat, flight) ==
    \E t \in DOMAIN T : t.row = row /\ t.seat = seat /\ t.flight = flight

\* Flight.tickets_available, with every ticket of the table counted (a wrong join).
tickets_available_all(F, T, f) ==
    capacity(airplanes[F[f].airplane]) - BagCardinality(T)

\* Flight.tickets_available
tickets_available(F, T, f) ==
    capacity(airplanes[F[f].airplane]) - BagCardinality(FlightTickets(T, f))

----------------------------------------------------------------------------
(* Ticket: full_clean and save.                                            *)

\* Ticket.full_clean without clean(): validate_unique alone.
Ticket_full_clean_unique_only(F, T, t) ==
    IF SeatTaken(T, t.row, t.seat, t.flight) THEN "ValidationError" ELSE "ok"

\* Ticket.full_clean: clean() calls validate_ticket, validate_unique() looks the
\* (row, seat, flight) up in the table; either raises django's ValidationError.
Ticket_full_clean(F, T, t) ==
    IF validate_ticket(t.row, t.seat, airplanes[F[t.flight].airplane]) # "ok"
    THEN "ValidationError"
    ELSE IF SeatTaken(T, t.row, t.seat, t.flight) THEN "ValidationError"
    ELSE "ok"

\* The INSERT of super().save(): the store's unique index on (row, seat, flight)
\* refuses a second row for a seat with an IntegrityError.
Ticket_insert(T, t) ==
    IF SeatTaken(T, t.row, t.seat, t.flight)
    THEN [error |-> "IntegrityError", tickets |-> T]
    ELSE [error |-> "ok", tickets |-> T (+) SetToBag({t})]

\* Ticket.save: full_clean, then the INSERT.
Ticket_save(F, T, t) ==
    LET error == Ticket_full_clean(F, T, t) IN
    IF error = "ok" THEN Ticket_insert(T, t)
    ELSE [error |-> error, tickets |-> T]

----------------------------------------------------------------------------
(* Serializers.                                                            *)

\* TicketSerializer.run_validation of one entry d = [row, seat, flight]:
\* the flight primary key must exist, the UniqueTogetherValidator that
\* ModelSerializer derives from Meta.unique_together must pass, then validate().
TicketSerializer_validate(F, T, d) ==
    IF d.flight \notin DOMAIN F THEN "flight"
    ELSE IF SeatTaken(T, d.row, d.seat, d.flight) THEN "non_field_errors"
    ELSE validate_ticket(d.row, d.seat, airplanes[F[d.flight].airplane])

\* OrderSerializer.is_valid with allow_empty=True on the tickets field.
OrderSerializer_is_valid_allow_empty(F, T, payload) ==
    \A i \in 1..Len(payload) : TicketSerializer_validate(F, T, payload[i]) = "ok"

\* OrderSerializer.is_valid: tickets = TicketSerializer(many=True, allow_empty=False)
OrderSerializer_is_valid(F, T, payload) ==
    /\ payload # <<>>
    /\ \A i \in 1..Len(payload) : TicketSerializer_validate(F, T, payload[i]) = "ok"

\* The loop of OrderSerializer.create from entry i on:
\* Ticket.objects.create(order=order, **ticket_data), stopping at the first raise.
RECURSIVE create_tickets(_, _, _, _, _)
create_tickets(F, T, order, payload, i) ==
    IF i > Len(payload) THEN [error |-> "ok", tickets |-> T]
    ELSE LET d == payload[i]
             saved == Ticket_save(F, T, [row |-> d.row, seat |-> d.seat,
                                         flight |-> d.flight, order |-> order])
         IN IF saved.error # "ok" THEN saved
            ELSE create_tickets(F, saved.tickets, order, payload, i + 1)

\* OrderSerializer.create without transaction.atomic: what was written stays.
OrderSerializer_create_no_atomic(F, O, T, id, user, payload) ==
    LET created == [x \in DOMAIN O \cup {id} |->
                        IF x = id THEN [user |-> user] ELSE O[x]]
        loop == create_tickets(F, T, id, payload, 1)
    IN [error |-> loop.error, orders |-> created, tickets |-> loop.tickets]

\* OrderSerializer.create: inside transaction.atomic() the Order row, then one
\* Ticket row per entry; an exception leaves the block and rolls all of it back.
OrderSerializer_create(F, O, T, id, user, payload) ==
    LET created == [x \in DOMAIN O \cup {id} |->
                        IF x = id THEN [user |-> user] ELSE O[x]]
        loop == create_tickets(F, T, id, payload, 1)
    IN IF loop.error = "ok"
       THEN [error |-> "ok", orders |-> created, tickets |-> loop.tickets]
       ELSE [error |-> loop.error, orders |-> O, tickets |-> T]

----------------------------------------------------------------------------
(* Requests and responses.                                                 *)

\* What a client sends as row and seat. On airplane 1 (2 x 3) rows 1 and seats
\* 1, 2 are in range and row 2 = rows is not; on airplane 2 (3 x 2) rows 1, 2 and
\* seat 1 are in range and seat 2 = seats_in_row is not.
RowInputs == 1..2
SeatInputs == 1..2
TicketInputs == [row : RowInputs, seat : SeatInputs, flight : DOMAIN FlightLedger]
Payloads == UNION {[1..n -> TicketInputs] : n \in 0..MaxLen}

NoOrders == [x \in {} |-> [user |-> Anonymous]]
NoData ==
    [route |-> 0, airplane |-> 0, departure_time |-> 0, arrival_time |-> 0,
     crew |-> {}]
\* GET /flights without query parameters.
NoQuery ==
    [source_airport |-> <<>>, destination_airport |-> <<>>, source_city |-> <<>>,
     destination_city |-> <<>>, airplane |-> <<>>, crew |-> <<>>,
     date_departure |-> <<>>, date_arrival |-> <<>>, page |-> <<>>, page_size |-> <<>>]
NoRequest ==
    [op |-> "none", user |-> Anonymous, status |-> 0, error |-> "",
     tickets |-> <<>>, order |-> 0, flight |-> 0, data |-> NoData, body |-> {},
     query |-> NoQuery, results |-> <<>>]

\* The request handled and its response, for the order endpoints and the model.
Response(op, user, status, error, payload, order, body) ==
    [op |-> op, user |-> user, status |-> status, error |-> error,
     tickets |-> payload, order |-> order, flight |-> 0, data |-> NoData,
     body |-> body, query |-> NoQuery, results |-> <<>>]

\* The same for the flight and airplane endpoints.
FlightResponse(op, user, status, error, data, id, body) ==
    [op |-> op, user |-> user, status |-> status, error |-> error,
     tickets |-> <<>>, order |-> 0, flight |-> id, data |-> data, body |-> body,
     query |-> NoQuery, results |-> <<>>]

\* permission_classes = [IsAuthenticated] that lets every caller in.
OrderViewSet_has_permission_any(u) == TRUE

\* OrderViewSet.permission_classes = [IsAuthenticated]
OrderViewSet_has_permission(u) == is_authenticated(u)

\* OrderViewSet.get_queryset without the filter on the requesting user.
OrderViewSet_get_queryset_all(O, u) == DOMAIN O

\* OrderViewSet.get_queryset: queryset.filter(user=self.request.user), as ids.
OrderViewSet_get_queryset(O, u) == {id \in DOMAIN O : O[id].user = u}

----------------------------------------------------------------------------
(* Spec: the order and ticket requests, each handled to completion.        *)

\* Requests are handled one at a time, each to completion: a handler starts when
\* the response to the request before it has gone out.
Idle == last = NoRequest

\* The response goes out and the request is over.
Respond ==
    /\ ~Idle
    /\ last' = NoRequest
    /\ UNCHANGED <<airplanes, flights, orders, tickets, nextOrderId, probe, txn>>

\* serializer.save(**kwargs) with request.data kept whole and put over kwargs.
OrderSerializer_save_unfiltered(data, kwargs) ==
    [k \in DOMAIN data \cup DOMAIN kwargs |->
        IF k \in DOMAIN data THEN data[k] ELSE kwargs[k]]

\* serializer.save(**kwargs): validated_data holds the writable fields of
\* Meta.fields that request.data gives (of id, created_at, tickets only
\* tickets is writable; any other key, "user" included, is dropped), and
\* kwargs are put over it: {**validated_data, **kwargs}.
OrderSerializer_save(data, kwargs) ==
    [k \in (DOMAIN data \cap {"tickets"}) \cup DOMAIN kwargs |->
        IF k \in DOMAIN kwargs THEN kwargs[k] ELSE data[k]]

\* What a response keeps of request.data besides the tickets.
Extra(data) == IF "user" \in DOMAIN data THEN [user |-> data.user] ELSE NoData

\* POST /orders  (CreateModelMixin.create: is_valid, then perform_create, which
\* calls serializer.save(user=self.request.user)), data being request.data.
PostOrder(u, data) ==
    /\ Idle
    /\ nextOrderId <= MaxOrders
    /\ IF ~OrderViewSet_has_permission(u)
       THEN \* refused in initial(), before request.data is read
            /\ last' = Response("create_order", u, 401, "NotAuthenticated", <<>>, 0, {})
            /\ UNCHANGED <<orders, tickets, nextOrderId>>
       ELSE IF ~OrderSerializer_is_valid(flights, tickets, data.tickets)
       THEN /\ last' = [Response("create_order", u, 400, "ValidationError",
                                 data.tickets, 0, {})
                        EXCEPT !.data = Extra(data)]
            /\ UNCHANGED <<orders, tickets, nextOrderId>>
       ELSE LET saved == OrderSerializer_save(data, [user |-> u])
                made == OrderSerializer_create(flights, orders, tickets,
                                               nextOrderId, saved.user, saved.tickets)
            IN /\ orders' = made.orders
               /\ tickets' = made.tickets
               /\ nextOrderId' = IF nextOrderId \in DOMAIN made.orders
                                 THEN nextOrderId + 1 ELSE nextOrderId
               /\ last' = [IF made.error = "ok"
                           THEN Response("create_order", u, 201, "", data.tickets,
                                         nextOrderId, {})
                           ELSE Response("create_order", u, 500, made.error,
                                         data.tickets, 0, {})
                           EXCEPT !.data = Extra(data)]
    /\ UNCHANGED <<airplanes, flights, probe, txn>>

\* POST /orders with nothing but tickets in request.data.
CreateOrder(u, payload) == PostOrder(u, [tickets |-> payload])

\* GET /orders  (ListModelMixin.list over get_queryset)
ListOrders(u) ==
    /\ Idle
    /\ IF ~OrderViewSet_has_permission(u)
       THEN last' = Response("list_orders", u, 401, "NotAuthenticated", <<>>, 0, {})
       ELSE last' = Response("list_orders", u, 200, "", <<>>, 0,
                             OrderViewSet_get_queryset(orders, u))
    /\ UNCHANGED <<airplanes, flights, orders, tickets, nextOrderId, probe, txn>>

\* Ticket.Meta.ordering within one order: flight, then row, then seat.
TicketBefore(a, b) ==
    \/ a.flight < b.flight
    \/ a.flight = b.flight /\ a.row < b.row
    \/ a.flight = b.flight /\ a.row = b.row /\ a.seat <= b.seat

\* The rows of a bag of tickets as a list in Meta.ordering.
RECURSIVE ordered(_)
ordered(T) ==
    IF DOMAIN T = {} THEN <<>>
    ELSE LET t == CHOOSE x \in DOMAIN T : \A y \in DOMAIN T : TicketBefore(x, y)
         IN <<t>> \o ordered(T (-) SetToBag({t}))

\* order.tickets.all() read over every order of the table.
tickets_all_of_every_order(T, id) == ordered(T)

\* obj.tickets.all(): the tickets of order id, in Meta.ordering.
tickets_all(T, id) == ordered(OrderTickets(T, id))

\* The loop of OrderDetailSerializer.get_flights from ticket i on: groups is
\* list(flights.values()) so far, a dict keyed by flight id in insertion order.
RECURSIVE get_flights_loop(_, _, _, _)
get_flights_loop(F, list, i, groups) ==
    IF i > Len(list) THEN groups
    ELSE LET ticket == list[i]
             flight == F[ticket.flight]
             known  == \E g \in 1..Len(groups) : groups[g].id = ticket.flight
             opened == IF known THEN groups
                       ELSE Append(groups,
                                [id |-> ticket.flight,
                                 route |-> flight.route,
                                 airplane |-> airplanes[flight.airplane].name,
                                 departure_time |-> flight.departure_time,
                                 arrival_time |-> flight.arrival_time,
                                 tickets |-> <<>>])
             seat   == [row |-> ticket.row, seat |-> ticket.seat]
         IN get_flights_loop(F, list, i + 1,
                [g \in 1..Len(opened) |->
                    IF opened[g].id = ticket.flight
                    THEN [opened[g] EXCEPT !.tickets = Append(@, seat)]
                    ELSE opened[g]])

\* OrderDetailSerializer.get_flights
OrderDetailSerializer_get_flights(F, T, id) ==
    get_flights_loop(F, tickets_all(T, id), 1, <<>>)

\* GET /orders/{id}  (RetrieveModelMixin.retrieve, get_object over get_queryset)
RetrieveOrder(u, id) ==
    /\ Idle
    /\ IF ~OrderViewSet_has_permission(u)
       THEN last' = Response("retrieve_order", u, 401, "NotAuthenticated", <<>>, id, {})
       ELSE IF id \notin OrderViewSet_get_queryset(orders, u)
       THEN last' = Response("retrieve_order", u, 404, "NotFound", <<>>, id, {})
       ELSE last' = [Response("retrieve_order", u, 200, "", <<>>, id, {id})
                        EXCEPT !.results =
                            OrderDetailSerializer_get_flights(flights, tickets, id)]
    /\ UNCHANGED <<airplanes, flights, orders, tickets, nextOrderId, probe, txn>>

\* DELETE /orders/{id}  (DestroyModelMixin.destroy: get_object, instance.delete())
DeleteOrder(u, id) ==
    /\ Idle
    /\ IF ~OrderViewSet_has_permission(u)
       THEN /\ last' = Response("delete_order", u, 401, "NotAuthenticated", <<>>, id, {})
            /\ UNCHANGED <<orders, tickets>>
       ELSE IF id \notin OrderViewSet_get_queryset(orders, u)
       THEN /\ last' = Response("delete_order", u, 404, "NotFound", <<>>, id, {})
            /\ UNCHANGED <<orders, tickets>>
       ELSE /\ orders' = [x \in DOMAIN orders \ {id} |-> orders[x]]
            /\ tickets' = CascadeDelete(tickets, id)
            /\ last' = Response("delete_order", u, 204, "", <<>>, id, {})
    /\ UNCHANGED <<airplanes, flights, nextOrderId, probe, txn>>

\* Ticket.objects.create(row=, seat=, flight=, order=): a ticket saved through the
\* model, outside any request (the admin site, the tests' fixtures).
CreateTicket(d, id) ==
    /\ Idle
    /\ id \in DOMAIN orders
    /\ LET saved == Ticket_save(flights, tickets,
                                [row |-> d.row, seat |-> d.seat,
                                 flight |-> d.flight, order |-> id])
       IN /\ tickets' = saved.tickets
          /\ last' = Response("create_ticket", "model", 0,
                              IF saved.error = "ok" THEN "" ELSE saved.error,
                              <<d>>, id, {})
    /\ UNCHANGED <<airplanes, flights, orders, nextOrderId, probe, txn>>

----------------------------------------------------------------------------
(* FlightViewSet.get_queryset and FlightPagination: GET /flights.          *)

\* The clock of the model counts ticks from the start of the ledger's month;
\* a calendar day has TicksPerDay of them.
LedgerMonth == <<2024, 8>>

Digits == {"1", "2", "3"}
Digit(c) == CASE c = "1" -> 1 [] c = "2" -> 2 [] OTHER -> 3

\* str.split(",")
RECURSIVE split(_)
split(text) ==
    IF \A i \in 1..Len(text) : text[i] # "," THEN <<text>>
    ELSE LET k == CHOOSE i \in 1..Len(text) :
                     text[i] = "," /\ \A j \in 1..(i - 1) : text[j] # ","
         IN <<SubSeq(text, 1, k - 1)>> \o split(SubSeq(text, k + 1, Len(text)))

\* str.strip, as int() applies it to its argument.
RECURSIVE strip(_)
strip(text) ==
    IF text = <<>> THEN text
    ELSE IF Head(text) = " " THEN strip(Tail(text))
    ELSE IF text[Len(text)] = " " THEN strip(SubSeq(text, 1, Len(text) - 1))
    ELSE text

\* int(str_id): the number the digits write, or no number at all.
is_int(text) == strip(text) # <<>> /\ \A i \in 1..Len(strip(text)) : strip(text)[i] \in Digits

RECURSIVE digits_value(_)
digits_value(text) ==
    IF text = <<>> THEN 0
    ELSE 10 * digits_value(SubSeq(text, 1, Len(text) - 1)) + Digit(text[Len(text)])

int(text) == digits_value(strip(text))

\* FlightViewSet._params_to_ints: ValueError unless every piece is an integer.
_params_to_ints(qs) ==
    LET pieces == split(qs)
    IN IF \A i \in 1..Len(pieces) : is_int(pieces[i])
       THEN [error |-> "ok", ids |-> {int(pieces[i]) : i \in 1..Len(pieces)}]
       ELSE [error |-> "ValueError", ids |-> {}]

\* datetime.strptime(text, "%Y-%m-%d").date(): a date text is its fields
\* year, month, day; ValueError unless there are three and they name a day.
strptime(text) ==
    IF Len(text) = 3 /\ text[1] \in 1..9999 /\ text[2] \in 1..12 /\ text[3] \in 1..31
    THEN [error |-> "ok", date |-> text]
    ELSE [error |-> "ValueError", date |-> <<>>]

\* The first tick of a date: the value a DateTimeField lookup compares with
\* when it is given a date.  Whole months count 31 days, which keeps the
\* order of dates and is exact within the ledger's month.
midnight(date) ==
    (((date[1] * 12 + date[2]) - (LedgerMonth[1] * 12 + LedgerMonth[2])) * 31
        + (date[3] - 1)) * TicksPerDay

\* departure_time__gt in place of departure_time__gte.
gte_strict(time, date) == time > midnight(date)

\* The lookup time__gte=date.
gte(time, date) == time >= midnight(date)

\* The rows of the join with the crew table for crew__id__in=ids: one row
\* per flight and crew member of it among ids.
CrewJoin(F, f, ids) == Cardinality(F[f].crew \cap ids)

\* QuerySet.distinct() left out.
distinct_off(rows) == rows

\* QuerySet.distinct(): every flight once.
distinct(rows) == SetToBag(BagToSet(rows))

\* order_by("id") in place of order_by("departure_time").
order_by_id(F, rows) ==
    {s \in [1..BagCardinality(rows) -> DOMAIN rows] :
        /\ \A f \in DOMAIN rows : Cardinality({i \in DOMAIN s : s[i] = f}) = rows[f]
        /\ \A i \in DOMAIN s : \A j \in DOMAIN s : i < j => s[i] <= s[j]}

\* order_by("departure_time"): the orders the store may return the rows in;
\* rows of equal departure_time come in any order.
order_by(F, rows) ==
    {s \in [1..BagCardinality(rows) -> DOMAIN rows] :
        /\ \A f \in DOMAIN rows : Cardinality({i \in DOMAIN s : s[i] = f}) = rows[f]
        /\ \A i \in DOMAIN s : \A j \in DOMAIN s :
              i < j => F[s[i]].departure_time <= F[s[j]].departure_time}

\* The text filters of get_queryset: a parameter that is missing or empty
\* filters nothing.
TextFilters(F, f, q) ==
    /\ q.source_airport # <<>> =>
          icontains(Airports[RouteTable[F[f].route].source].name, q.source_airport)
    /\ q.destination_airport # <<>> =>
          icontains(Airports[RouteTable[F[f].route].destination].name,
                    q.destination_airport)
    /\ q.source_city # <<>> =>
          icontains(Airports[RouteTable[F[f].route].source].closest_big_city,
                    q.source_city)
    /\ q.destination_city # <<>> =>
          icontains(Airports[RouteTable[F[f].route].destination].closest_big_city,
                    q.destination_city)
    /\ q.airplane # <<>> => icontains(airplanes[F[f].airplane].name, q.airplane)

\* FlightViewSet.get_queryset: ValueError from a malformed crew or date, else
\* the possible result lists.
FlightViewSet_get_queryset(F, q) ==
    LET crew_ids == IF q.crew = <<>> THEN [error |-> "ok", ids |-> {}]
                    ELSE _params_to_ints(q.crew)
        departure == IF q.date_departure = <<>> THEN [error |-> "ok", date |-> <<>>]
                     ELSE strptime(q.date_departure)
        arrival == IF q.date_arrival = <<>> THEN [error |-> "ok", date |-> <<>>]
                   ELSE strptime(q.date_arrival)
        kept == {f \in DOMAIN F :
                    /\ TextFilters(F, f, q)
                    /\ q.crew # <<>> => CrewJoin(F, f, crew_ids.ids) > 0
                    /\ q.date_departure # <<>> =>
                          gte(F[f].departure_time, departure.date)
                    /\ q.date_arrival # <<>> => gte(F[f].arrival_time, arrival.date)}
        rows == [f \in kept |-> IF q.crew = <<>> THEN 1
                                ELSE CrewJoin(F, f, crew_ids.ids)]
    IN IF crew_ids.error # "ok" \/ departure.error # "ok" \/ arrival.error # "ok"
       THEN [error |-> "ValueError", lists |-> {}]
       ELSE [error |-> "ok", lists |-> order_by(F, distinct(rows))]

----------------------------------------------------------------------------
(* Flight: clean and save, FlightSerializer, FlightViewSet.                *)

NoFlights == [x \in {} |-> NoData]

\* Flight.clean with the comparison turned into arrival_time < departure_time.
Flight_clean_strict(flight) ==
    IF flight.departure_time > flight.arrival_time THEN "ValidationError" ELSE "ok"

\* Flight.clean
Flight_clean(flight) ==
    IF flight.departure_time >= flight.arrival_time THEN "ValidationError" ELSE "ok"

\* Flight.save that runs full_clean for a new row only.
Flight_save_clean_on_insert(F, id, flight) ==
    IF id \notin DOMAIN F /\ Flight_clean(flight) # "ok"
    THEN [error |-> "ValidationError", flights |-> F]
    ELSE [error |-> "ok",
          flights |-> [x \in DOMAIN F \cup {id} |-> IF x = id THEN flight ELSE F[x]]]

\* Flight.save that writes the row and leaves the crew relation empty.
Flight_save_without_crew(F, id, flight) ==
    IF Flight_clean(flight) # "ok"
    THEN [error |-> "ValidationError", flights |-> F]
    ELSE [error |-> "ok",
          flights |-> [x \in DOMAIN F \cup {id} |->
                          IF x = id THEN [flight EXCEPT !.crew = {}] ELSE F[x]]]

\* Flight.save: full_clean (which calls clean), then the INSERT or UPDATE of row id.
Flight_save(F, id, flight) ==
    IF Flight_clean(flight) # "ok"
    THEN [error |-> "ValidationError", flights |-> F]
    ELSE [error |-> "ok",
          flights |-> [x \in DOMAIN F \cup {id} |-> IF x = id THEN flight ELSE F[x]]]

\* FlightSerializer.validate
FlightSerializer_validate(attrs) ==
    IF attrs["departure_time"] >= attrs["arrival_time"] THEN "non_field_errors" ELSE "ok"

\* FlightSerializer.is_valid: the route and airplane primary keys must exist,
\* crew (a ManyToManyField without blank=True) must be a non-empty list of
\* existing Crew ids, then validate().
FlightSerializer_is_valid(data) ==
    /\ data.route \in Routes
    /\ data.airplane \in DOMAIN airplanes
    /\ data.crew # {} /\ data.crew \subseteq Crews
    /\ FlightSerializer_validate(data) = "ok"

\* The permission class of the view sets that name none (flights, airplanes):
\* reading needs an authenticated user, writing a staff user.  "" when granted.
DefaultPermission(u, method) ==
    IF ~is_authenticated(u) THEN "NotAuthenticated"
    ELSE IF method \in {"GET", "HEAD", "OPTIONS"} \/ is_staff(u) THEN ""
    ELSE "PermissionDenied"

\* The status of a request refused by a permission class.
DeniedStatus(error) == IF error = "NotAuthenticated" THEN 401 ELSE 403

\* What a client posts to /flights: ids 0 are of no Route and no Airplane.
FlightInputs ==
    [route : {0, 1}, airplane : {0, 1}, departure_time : 0..MaxTime,
     arrival_time : 0..MaxTime, crew : {{}, {1}, {1, 2}}]

\* POST /flights  (CreateModelMixin.create, FlightSerializer, Flight.save)
PostFlight(u, data) ==
    /\ Idle
    /\ LET denied == DefaultPermission(u, "POST")
           id == Cardinality(DOMAIN flights) + 1
       IN IF denied # ""
          THEN /\ last' = FlightResponse("post_flight", u, DeniedStatus(denied),
                                         denied, data, 0, {})
               /\ UNCHANGED flights
          ELSE IF ~FlightSerializer_is_valid(data)
          THEN /\ last' = FlightResponse("post_flight", u, 400, "ValidationError",
                                         data, 0, {})
               /\ UNCHANGED flights
          ELSE /\ id <= MaxFlights
               /\ LET saved == Flight_save(flights, id, data)
                  IN /\ flights' = saved.flights
                     /\ last' = IF saved.error = "ok"
                                THEN FlightResponse("post_flight", u, 201, "",
                                                    data, id, {id})
                                ELSE FlightResponse("post_flight", u, 500, saved.error,
                                                    data, 0, {})
    /\ UNCHANGED <<airplanes, orders, tickets, nextOrderId, probe, txn>>

\* FlightPagination.page_size and max_page_size.
page_size == 20
max_page_size == 100

\* PageNumberPagination.get_page_size: FlightPagination names no
\* page_size_query_param, so the request is not read and max_page_size is
\* never consulted.
get_page_size(q) == page_size

\* The number of pages of a list (Paginator.num_pages: an empty list has one).
num_pages(n, size) == IF n = 0 THEN 1 ELSE (n + size - 1) \div size

\* PageNumberPagination.paginate_queryset: the page the request asks for
\* (page, 1 when missing), NotFound when there is no such page.
paginate_queryset(list, q) ==
    LET size == get_page_size(q)
        number == IF q.page = <<>> THEN 1 ELSE q.page[1]
        from == (number - 1) * size + 1
        to == IF number * size < Len(list) THEN number * size ELSE Len(list)
    IN IF number \notin 1..num_pages(Len(list), size)
       THEN [error |-> "NotFound", results |-> <<>>]
       ELSE [error |-> "ok", results |-> SubSeq(list, from, to)]

\* The request and response of GET /flights: the page, and in body its flights.
QueryResponse(op, user, status, error, q, results) ==
    [op |-> op, user |-> user, status |-> status, error |-> error,
     tickets |-> <<>>, order |-> 0, flight |-> 0, data |-> NoData,
     body |-> {results[i] : i \in 1..Len(results)}, query |-> q, results |-> results]

\* GET /flights?...  (ListModelMixin.list: get_queryset, paginate_queryset)
ListFlights(u, q) ==
    /\ Idle
    /\ LET denied == DefaultPermission(u, "GET")
           qs == FlightViewSet_get_queryset(flights, q)
       IN IF denied # ""
          THEN last' = QueryResponse("list_flights", u, DeniedStatus(denied),
                                     denied, NoQuery, <<>>)
          ELSE IF qs.error # "ok"
          THEN last' = QueryResponse("list_flights", u, 500, qs.error, q, <<>>)
          ELSE \E list \in qs.lists :
                  LET paged == paginate_queryset(list, q)
                  IN IF paged.error # "ok"
                     THEN last' = QueryResponse("list_flights", u, 404, paged.error,
                                                q, <<>>)
                     ELSE last' = QueryResponse("list_flights", u, 200, "", q,
                                                paged.results)
    /\ UNCHANGED <<airplanes, flights, orders, tickets, nextOrderId, probe, txn>>

\* GET /flights/{id}  (RetrieveModelMixin.retrieve; get_object looks the id up
\* in get_queryset(), which filters by the query parameters for every action)
GetFlight(u, id, q) ==
    /\ Idle
    /\ LET denied == DefaultPermission(u, "GET")
           qs == FlightViewSet_get_queryset(flights, q)
           answer(status, error, body) ==
               [FlightResponse("retrieve_flight", u, status, error, NoData, id, body)
                   EXCEPT !.query = q]
       IN IF denied # ""
          THEN last' = FlightResponse("retrieve_flight", u, DeniedStatus(denied),
                                      denied, NoData, id, {})
          ELSE IF qs.error # "ok"
          THEN last' = answer(500, qs.error, {})
          ELSE \E list \in qs.lists :
                  LET found == {i \in 1..Len(list) : list[i] = id}
                  IN IF found = {}
                     THEN last' = answer(404, "NotFound", {})
                     ELSE IF Cardinality(found) > 1
                     THEN last' = answer(500, "MultipleObjectsReturned", {})
                     ELSE last' = answer(200, "", {id})
    /\ UNCHANGED <<airplanes, flights, orders, tickets, nextOrderId, probe, txn>>

\* GET /flights/{id} without query parameters.
RetrieveFlight(u, id) == GetFlight(u, id, NoQuery)

\* Flight.objects.create(route=, airplane=, departure_time=, arrival_time=) and
\* flight.crew.add(...): a flight saved through the model, outside any request.
CreateFlight(data) ==
    /\ Idle
    /\ data.route \in Routes /\ data.airplane \in DOMAIN airplanes
    /\ data.crew \subseteq Crews
    /\ LET id == Cardinality(DOMAIN flights) + 1
           saved == Flight_save(flights, id, data)
       IN /\ id <= MaxFlights
          /\ flights' = saved.flights
          /\ last' = FlightResponse("create_flight", "model", 0,
                                    IF saved.error = "ok" THEN "" ELSE saved.error,
                                    data, id, {})
    /\ UNCHANGED <<airplanes, orders, tickets, nextOrderId, probe, txn>>

\* flight.departure_time = dep; flight.arrival_time = arr; flight.save():
\* an existing flight changed and saved through the model.
SaveFlight(id, dep, arr) ==
    /\ Idle
    /\ id \in DOMAIN flights
    /\ LET changed == [flights[id] EXCEPT !.departure_time = dep,
                                          !.arrival_time = arr]
           saved == Flight_save(flights, id, changed)
       IN /\ flights' = saved.flights
          /\ last' = FlightResponse("save_flight", "model", 0,
                                    IF saved.error = "ok" THEN "" ELSE saved.error,
                                    changed, id, {})
    /\ UNCHANGED <<airplanes, orders, tickets, nextOrderId, probe, txn>>

----------------------------------------------------------------------------
(* Airplane: AirplaneViewSet and its upload-image action.                  *)

\* airplane_image_path: the stored name of an uploaded image (the uuid is
\* not told apart).
airplane_image_path(instance, file) ==
    <<"uploads/airplanes/">> \o slugify(instance.name) \o <<"-uuid", file.extention>>

\* What a client posts to /airplanes: type 0 is of no AirplaneType.
AirplaneInputs ==
    [name : {<<"A", "a">>}, rows : {0, 2}, seats_in_row : {2},
     airplane_type : {0, 1}, image : {<<>>, <<"photo.jpg">>}]

\* What a client uploads: a JPEG file, or text that is no image.
ImageInputs ==
    {[extention |-> ".jpg", is_image |-> TRUE], [extention |-> "", is_image |-> FALSE]}

AirplaneResponse(op, user, status, error, id, body) ==
    [op |-> op, user |-> user, status |-> status, error |-> error,
     tickets |-> <<>>, order |-> 0, flight |-> id, data |-> NoData, body |-> body,
     query |-> NoQuery, results |-> <<>>]

\* IsAuthenticated in the place of IsAdminUser.
IsAdminUser_authenticated(u) ==
    IF ~is_authenticated(u) THEN "NotAuthenticated" ELSE ""

\* upload_image is guarded by IsAdminUser.
IsAdminUser(u) ==
    IF ~is_authenticated(u) THEN "NotAuthenticated"
    ELSE IF is_staff(u) THEN "" ELSE "PermissionDenied"

\* GET /airplanes
ListAirplanes(u) ==
    /\ Idle
    /\ LET denied == DefaultPermission(u, "GET")
       IN IF denied # ""
          THEN last' = AirplaneResponse("list_airplanes", u, DeniedStatus(denied),
                                        denied, 0, {})
          ELSE last' = AirplaneResponse("list_airplanes", u, 200, "", 0,
                                        DOMAIN airplanes)
    /\ UNCHANGED <<airplanes, flights, orders, tickets, nextOrderId, probe, txn>>

\* GET /airplanes/{id}
RetrieveAirplane(u, id) ==
    /\ Idle
    /\ LET denied == DefaultPermission(u, "GET")
       IN IF denied # ""
          THEN last' = AirplaneResponse("retrieve_airplane", u, DeniedStatus(denied),
                                        denied, id, {})
          ELSE IF id \notin DOMAIN airplanes
          THEN last' = AirplaneResponse("retrieve_airplane", u, 404, "NotFound", id, {})
          ELSE last' = AirplaneResponse("retrieve_airplane", u, 200, "", id, {id})
    /\ UNCHANGED <<airplanes, flights, orders, tickets, nextOrderId, probe, txn>>

\* An AirplaneSerializer whose fields include image.
AirplaneSerializer_create_with_image(data) == data

\* AirplaneSerializer.create: the row made of the serializer's fields (name,
\* rows, seats_in_row, airplane_type); image is none of them and stays null.
AirplaneSerializer_create(data) == [data EXCEPT !.image = <<>>]

\* POST /airplanes  (AirplaneSerializer: id, name, rows, seats_in_row,
\* airplane_type; an image in the payload is not a field and is dropped)
PostAirplane(u, data) ==
    /\ Idle
    /\ LET denied == DefaultPermission(u, "POST")
           id == Cardinality(DOMAIN airplanes) + 1
       IN IF denied # ""
          THEN /\ last' = AirplaneResponse("post_airplane", u, DeniedStatus(denied),
                                           denied, 0, {})
               /\ UNCHANGED airplanes
          ELSE IF data.airplane_type \notin AirplaneTypes
          THEN /\ last' = [AirplaneResponse("post_airplane", u, 400,
                                            "ValidationError", 0, {})
                               EXCEPT !.data = data]
               /\ UNCHANGED airplanes
          ELSE /\ id <= MaxAirplanes
               /\ airplanes' = [x \in DOMAIN airplanes \cup {id} |->
                                  IF x = id THEN AirplaneSerializer_create(data)
                                  ELSE airplanes[x]]
               /\ last' = [AirplaneResponse("post_airplane", u, 201, "", id, {id})
                               EXCEPT !.data = data]
    /\ UNCHANGED <<flights, orders, tickets, nextOrderId, probe, txn>>

\* POST /airplanes/{id}/upload-image  (AirplaneViewSet.upload_image)
UploadImage(u, id, file) ==
    /\ Idle
    /\ LET denied == IsAdminUser(u)
       IN IF denied # ""
          THEN /\ last' = AirplaneResponse("upload_image", u, DeniedStatus(denied),
                                           denied, id, {})
               /\ UNCHANGED airplanes
          ELSE IF id \notin DOMAIN airplanes
          THEN /\ last' = AirplaneResponse("upload_image", u, 404, "NotFound", id, {})
               /\ UNCHANGED airplanes
          ELSE IF ~file.is_image
          THEN /\ last' = [AirplaneResponse("upload_image", u, 400,
                                            "ValidationError", id, {})
                               EXCEPT !.data = file]
               /\ UNCHANGED airplanes
          ELSE /\ airplanes' = [airplanes EXCEPT ![id].image =
                                  airplane_image_path(airplanes[id], file)]
               /\ last' = [AirplaneResponse("upload_image", u, 200, "", id, {id})
                               EXCEPT !.data = file]
    /\ UNCHANGED <<flights, orders, tickets, nextOrderId, probe, txn>>

\* The methods a view set has no handler for: the mixins of OrderViewSet give
\* list, create, retrieve and destroy, those of FlightViewSet and
\* AirplaneViewSet list, create and retrieve.
Unrouted ==
    {[resource |-> "orders", method |-> "PUT"],
     [resource |-> "orders", method |-> "PATCH"],
     [resource |-> "flights", method |-> "PUT"],
     [resource |-> "flights", method |-> "PATCH"],
     [resource |-> "flights", method |-> "DELETE"],
     [resource |-> "airplanes", method |-> "PUT"],
     [resource |-> "airplanes", method |-> "PATCH"],
     [resource |-> "airplanes", method |-> "DELETE"]}

\* PUT, PATCH or DELETE on /{resource}/{id} where the view set has no handler:
\* the permission classes run first, then the answer is 405.
MethodNotAllowed(u, call, id) ==
    /\ Idle
    /\ LET denied == IF call.resource = "orders"
                     THEN (IF OrderViewSet_has_permission(u) THEN ""
                           ELSE "NotAuthenticated")
                     ELSE DefaultPermission(u, call.method)
       IN IF denied # ""
          THEN last' = AirplaneResponse(call.method, u, DeniedStatus(denied),
                                        denied, id, {call.resource})
          ELSE last' = AirplaneResponse(call.method, u, 405, "MethodNotAllowed",
                                        id, {call.resource})
    /\ UNCHANGED <<airplanes, flights, orders, tickets, nextOrderId, probe, txn>>

NoProbe == [rows |-> 0, seats_in_row |-> 0, row |-> 0, seat |-> 0, result |-> "unused"]

Init ==
    /\ airplanes = Fleet
    /\ flights = FlightLedger
    /\ orders = NoOrders
    /\ tickets = EmptyBag
    /\ nextOrderId = 1
    /\ last = NoRequest
    /\ probe = NoProbe
    /\ txn = <<>>

Next ==
    \/ Idle /\ nextOrderId <= MaxOrders
            /\ \E u \in Requesters, payload \in Payloads : CreateOrder(u, payload)
    \/ Idle /\ \E u \in Requesters : ListOrders(u)
    \/ Idle /\ \E u \in Requesters, id \in 1..MaxOrders : RetrieveOrder(u, id)
    \/ Idle /\ \E u \in Requesters, id \in 1..MaxOrders : DeleteOrder(u, id)
    \/ Idle /\ \E d \in TicketInputs, id \in DOMAIN orders : CreateTicket(d, id)
    \/ Idle /\ \E u \in NonStaff, data \in FlightInputs : PostFlight(u, data)
    \/ Idle /\ \E u \in Requesters : ListFlights(u, NoQuery)
    \/ Idle /\ \E u \in Requesters, id \in 1..MaxFlights : RetrieveFlight(u, id)
    \/ Idle /\ \E u \in Requesters : ListAirplanes(u)
    \/ Idle /\ \E u \in Requesters, id \in 1..MaxAirplanes : RetrieveAirplane(u, id)
    \/ Idle /\ \E u \in NonStaff, data \in AirplaneInputs : PostAirplane(u, data)
    \/ Idle /\ \E u \in NonStaff, id \in 1..MaxAirplanes, file \in ImageInputs :
                  UploadImage(u, id, file)
    \/ Idle /\ \E u \in Requesters, call \in Unrouted, id \in 1..MaxOrders :
                  MethodNotAllowed(u, call, id)
    \/ Respond

Spec == Init /\ [][Next]_vars

----------------------------------------------------------------------------
(* SpecFlight: the flight ledger, written by staff and through the model.  *)

InitFlight ==
    /\ airplanes = Fleet
    /\ flights = NoFlights
    /\ orders = NoOrders
    /\ tickets = EmptyBag
    /\ nextOrderId = 1
    /\ last = NoRequest
    /\ probe = NoProbe
    /\ txn = <<>>

NextFlight ==
    \/ Idle /\ \E u \in Requesters, data \in FlightInputs : PostFlight(u, data)
    \/ Idle /\ \E u \in Requesters : ListFlights(u, NoQuery)
    \/ Idle /\ \E u \in Requesters, id \in 1..MaxFlights : RetrieveFlight(u, id)
    \/ Idle /\ \E data \in FlightInputs : CreateFlight(data)
    \/ Idle /\ \E id \in DOMAIN flights, dep \in 0..MaxTime, arr \in 0..MaxTime :
                  SaveFlight(id, dep, arr)
    \/ Respond

SpecFlight == InitFlight /\ [][NextFlight]_vars

----------------------------------------------------------------------------
(* SpecFleet: every requester, staff included, on the airplanes, with the   *)
(* flights and orders the other requests could touch.                       *)

\* The payloads of SpecFleet: every airplane of AirplaneInputs, flights on
\* route 1 with crew member 1 leaving at time 0, one order for seat (1, 1)
\* of flight 1.
FleetFlightInputs ==
    {d \in FlightInputs : d.route = 1 /\ d.crew = {1} /\ d.departure_time = 0}
FleetPayloads == {<<[row |-> 1, seat |-> 1, flight |-> 1]>>}

InitFleet ==
    /\ airplanes = Fleet
    /\ flights = FlightLedger
    /\ orders = NoOrders
    /\ tickets = EmptyBag
    /\ nextOrderId = 1
    /\ last = NoRequest
    /\ probe = NoProbe
    /\ txn = <<>>

NextFleet ==
    \/ Idle /\ \E u \in Requesters : ListAirplanes(u)
    \/ Idle /\ \E u \in Requesters, id \in 1..MaxAirplanes : RetrieveAirplane(u, id)
    \/ Idle /\ \E u \in Requesters, data \in AirplaneInputs : PostAirplane(u, data)
    \/ Idle /\ \E u \in Requesters, id \in 1..MaxAirplanes, file \in ImageInputs :
                  UploadImage(u, id, file)
    \/ Idle /\ \E u \in Requesters, call \in Unrouted, id \in 1..MaxAirplanes :
                  MethodNotAllowed(u, call, id)
    \/ Idle /\ \E u \in Requesters, data \in FleetFlightInputs : PostFlight(u, data)
    \/ Idle /\ \E u \in Requesters : ListFlights(u, NoQuery)
    \/ Idle /\ \E u \in Requesters, id \in 1..MaxFlights : RetrieveFlight(u, id)
    \/ Idle /\ nextOrderId <= MaxOrders
            /\ \E u \in Requesters, payload \in FleetPayloads : CreateOrder(u, payload)
    \/ Idle /\ \E u \in Requesters : ListOrders(u)
    \/ Idle /\ \E u \in Requesters, id \in 1..MaxOrders : RetrieveOrder(u, id)
    \/ Idle /\ \E u \in Requesters, id \in 1..MaxOrders : DeleteOrder(u, id)
    \/ Respond

SpecFleet == InitFleet /\ [][NextFleet]_vars

----------------------------------------------------------------------------
(* SpecOwner: POST /orders with a request body that names an owner, and the *)
(* other requests on orders.                                                *)

\* request.data of SpecOwner: one ticket on flight 1, with or without a
\* "user" key naming a user.
OwnerInputs ==
    LET entries == {<<d>> : d \in {t \in TicketInputs : t.flight = 1}}
    IN {[tickets |-> p] : p \in entries}
       \cup {[tickets |-> p, user |-> v] : p \in entries, v \in Users}

InitOwner ==
    /\ airplanes = Fleet
    /\ flights = FlightLedger
    /\ orders = NoOrders
    /\ tickets = EmptyBag
    /\ nextOrderId = 1
    /\ last = NoRequest
    /\ probe = NoProbe
    /\ txn = <<>>

NextOwner ==
    \/ Idle /\ nextOrderId <= MaxOrders
            /\ \E u \in Requesters, data \in OwnerInputs : PostOrder(u, data)
    \/ Idle /\ \E u \in Requesters : ListOrders(u)
    \/ Idle /\ \E u \in Requesters, id \in 1..MaxOrders : RetrieveOrder(u, id)
    \/ Idle /\ \E u \in Requesters, id \in 1..MaxOrders : DeleteOrder(u, id)
    \/ Idle /\ \E u \in Requesters, id \in 1..MaxOrders,
                  call \in {c \in Unrouted : c.resource = "orders"} :
                  MethodNotAllowed(u, call, id)
    \/ Respond

SpecOwner == InitOwner /\ [][NextOwner]_vars

----------------------------------------------------------------------------
(* SpecConc: two POST /orders handled at once.  Each request goes through  *)
(* OrderSerializer.is_valid, then OrderSerializer.create inside             *)
(* transaction.atomic(): the Order row, then for every entry                *)
(* Ticket.full_clean and the INSERT, then the commit.  A request reads the   *)
(* committed rows and its own uncommitted ones; the unique index on          *)
(* (row, seat, flight) makes an INSERT wait for an uncommitted row of the    *)
(* other transaction with the same key.                                      *)

Requests == {1, 2}
Other(r) == 3 - r

\* The entries the two clients choose from: two seats of flight 1, and a row
\* its airplane does not have.
ConcTicketInputs ==
    {[row |-> 1, seat |-> 1, flight |-> 1], [row |-> 1, seat |-> 2, flight |-> 1],
     [row |-> 2, seat |-> 1, flight |-> 1]}
ConcPayloads == UNION {[1..n -> ConcTicketInputs] : n \in 1..MaxLen}

\* The rows a transaction sees: the committed ones and its own.
Visible(r) == tickets (+) txn[r].pending

Entry(r) == [row |-> txn[r].payload[txn[r].idx].row,
             seat |-> txn[r].payload[txn[r].idx].seat,
             flight |-> txn[r].payload[txn[r].idx].flight,
             order |-> txn[r].order]

\* The INSERT of request r waits for the other transaction.
Blocked(r) ==
    /\ txn[r].pc = "insert"
    /\ ~SeatTaken(Visible(r), Entry(r).row, Entry(r).seat, Entry(r).flight)
    /\ SeatTaken(txn[Other(r)].pending, Entry(r).row, Entry(r).seat, Entry(r).flight)

\* The request ends without a commit: its transaction, if any, is rolled back.
Fail(r, status, error) ==
    txn' = [txn EXCEPT ![r].pc = "done", ![r].status = status, ![r].error = error,
                       ![r].pending = EmptyBag]

\* OrderSerializer.is_valid, against the committed rows.
ConcValidate(r) ==
    /\ txn[r].pc = "validate"
    /\ IF OrderSerializer_is_valid(flights, tickets, txn[r].payload)
       THEN txn' = [txn EXCEPT ![r].pc = "begin"]
       ELSE Fail(r, 400, "ValidationError")
    /\ UNCHANGED <<airplanes, flights, orders, tickets, nextOrderId, last, probe>>

\* OrderSerializer.create: transaction.atomic() and Order.objects.create.
ConcBegin(r) ==
    /\ txn[r].pc = "begin"
    /\ txn' = [txn EXCEPT ![r].pc = "clean", ![r].order = nextOrderId, ![r].idx = 1]
    /\ nextOrderId' = nextOrderId + 1
    /\ UNCHANGED <<airplanes, flights, orders, tickets, last, probe>>

\* Ticket.save, first half: full_clean of the next entry.
ConcClean(r) ==
    /\ txn[r].pc = "clean"
    /\ IF Ticket_full_clean(flights, Visible(r), Entry(r)) = "ok"
       THEN txn' = [txn EXCEPT ![r].pc = "insert"]
       ELSE Fail(r, 500, "ValidationError")
    /\ UNCHANGED <<airplanes, flights, orders, tickets, nextOrderId, last, probe>>

\* Ticket.save, second half: the INSERT, once no other transaction holds the key.
ConcInsert(r) ==
    /\ txn[r].pc = "insert"
    /\ ~Blocked(r)
    /\ LET made == Ticket_insert(Visible(r), Entry(r))
       IN IF made.error # "ok"
          THEN Fail(r, 500, made.error)
          ELSE txn' = [txn EXCEPT
                         ![r].pending = txn[r].pending (+) SetToBag({Entry(r)}),
                         ![r].idx = txn[r].idx + 1,
                         ![r].pc = IF txn[r].idx = Len(txn[r].payload)
                                   THEN "commit" ELSE "clean"]
    /\ UNCHANGED <<airplanes, flights, orders, tickets, nextOrderId, last, probe>>

\* Each INSERT waits for the other: the store ends one of the transactions.
ConcDeadlock(r) ==
    /\ Blocked(r) /\ Blocked(Other(r))
    /\ Fail(r, 500, "OperationalError")
    /\ UNCHANGED <<airplanes, flights, orders, tickets, nextOrderId, last, probe>>

\* The end of the atomic block: the commit, and the 201.
ConcCommit(r) ==
    /\ txn[r].pc = "commit"
    /\ orders' = [x \in DOMAIN orders \cup {txn[r].order} |->
                    IF x = txn[r].order THEN [user |-> txn[r].user] ELSE orders[x]]
    /\ tickets' = tickets (+) txn[r].pending
    /\ txn' = [txn EXCEPT ![r].pc = "done", ![r].status = 201,
                          ![r].pending = EmptyBag]
    /\ UNCHANGED <<airplanes, flights, nextOrderId, last, probe>>

InitConc ==
    /\ airplanes = Fleet
    /\ flights = FlightLedger
    /\ orders = NoOrders
    /\ tickets = EmptyBag
    /\ nextOrderId = 1
    /\ last = NoRequest
    /\ probe = NoProbe
    /\ txn \in [Requests -> [user : Users, payload : ConcPayloads, pc : {"validate"},
                             idx : {0}, order : {0}, pending : {EmptyBag},
                             status : {0}, error : {""}]]

NextConc ==
    \/ \E r \in Requests : ConcValidate(r)
    \/ \E r \in Requests : ConcBegin(r)
    \/ \E r \in Requests : ConcClean(r)
    \/ \E r \in Requests : ConcInsert(r)
    \/ \E r \in Requests : ConcDeadlock(r)
    \/ \E r \in Requests : ConcCommit(r)

SpecConc == InitConc /\ [][NextConc]_vars

----------------------------------------------------------------------------
(* SpecQuery: GET /flights with every combination of query parameters over *)
(* every ledger of MaxFlights flights drawn from QueryFlights.             *)

\* The flights of the query ledgers: both routes and airplanes, crews that
\* overlap, departures and arrivals on day 0 and day 1 of the month, at the
\* first tick of a day and later, two departures equal.
QueryFlights ==
    {[route |-> 1, airplane |-> 1, departure_time |-> 0,
      arrival_time |-> 1, crew |-> {1}],
     [route |-> 2, airplane |-> 2, departure_time |-> TicksPerDay + 1,
      arrival_time |-> 2 * TicksPerDay, crew |-> {1, 2}],
     [route |-> 1, airplane |-> 2, departure_time |-> TicksPerDay,
      arrival_time |-> 2 * TicksPerDay + 1, crew |-> {2}],
     [route |-> 2, airplane |-> 1, departure_time |-> 0,
      arrival_time |-> TicksPerDay, crew |-> {2}]}

\* The values of the query parameters; <<>> is a parameter left out.
NameInputs == {<<>>, <<"a">>, <<"B", "A">>}
CityInputs == {<<>>, <<"X", "A">>}
CrewInputs ==
    {<<>>, <<"1">>, <<"1", ",", " ", "2">>, <<"3">>, <<"2", ",">>, <<"x">>}
DateInputs == {<<>>, <<2024, 8, 2>>, <<2024, 13, 1>>}

Queries ==
    [source_airport : NameInputs, destination_airport : NameInputs,
     source_city : CityInputs, destination_city : CityInputs,
     airplane : NameInputs, crew : CrewInputs,
     date_departure : DateInputs, date_arrival : DateInputs,
     page : {<<>>}, page_size : {<<>>}]

InitQuery ==
    /\ airplanes = Fleet
    /\ flights \in [1..MaxFlights -> QueryFlights]
    /\ orders = NoOrders
    /\ tickets = EmptyBag
    /\ nextOrderId = 1
    /\ last = NoRequest
    /\ probe = NoProbe
    /\ txn = <<>>

\* The queries made of one flight: no city and no destination parameter.
RetrieveQueries ==
    {q \in Queries : /\ q.source_city = <<>> /\ q.destination_city = <<>>
                     /\ q.destination_airport = <<>>}

NextQuery ==
    \/ Idle /\ \E q \in Queries : ListFlights("user", q)
    \/ Idle /\ \E q \in RetrieveQueries, id \in 1..(MaxFlights + 1) :
                  GetFlight("user", id, q)

SpecQuery == InitQuery /\ [][NextQuery]_vars

----------------------------------------------------------------------------
(* SpecPage: FlightPagination on result lists of every length up to        *)
(* MaxRows, for the pages and page sizes a client may ask for.             *)

PageInputs == {<<>>} \cup {<<n>> : n \in 1..4}
PageSizeInputs == {<<>>, <<1>>, <<21>>, <<max_page_size>>, <<max_page_size + 1>>}

InitPage ==
    /\ airplanes = Fleet
    /\ flights = FlightLedger
    /\ orders = NoOrders
    /\ tickets = EmptyBag
    /\ nextOrderId = 1
    /\ last = NoRequest
    /\ txn = <<>>
    /\ probe \in [rows : 0..MaxRows, page : PageInputs, page_size : PageSizeInputs,
                  done : {FALSE}, result : {[error |-> "", results |-> <<>>]}]

\* paginate_queryset applied to a result list of probe.rows flights.
Paginate ==
    /\ ~probe.done
    /\ probe' = [probe EXCEPT !.done = TRUE, !.result =
                    paginate_queryset([i \in 1..probe.rows |-> i],
                                      [NoQuery EXCEPT !.page = probe.page,
                                                      !.page_size = probe.page_size])]
    /\ UNCHANGED <<airplanes, flights, orders, tickets, nextOrderId, last, txn>>

NextPage == Paginate

SpecPage == InitPage /\ [][NextPage]_vars

----------------------------------------------------------------------------
(* SpecValidate: Ticket.validate_ticket on every airplane grid and seat of  *)
(* the bounded range.                                                      *)

Dims == -1..MaxDim
Coords == -1..(MaxDim + 1)

InitValidate ==
    /\ airplanes = Fleet
    /\ flights = FlightLedger
    /\ orders = NoOrders
    /\ tickets = EmptyBag
    /\ nextOrderId = 1
    /\ last = NoRequest
    /\ txn = <<>>
    /\ probe \in [rows : Dims, seats_in_row : Dims, row : Coords, seat : Coords,
                  result : {"none"}]

\* Ticket.validate_ticket(row, seat, airplane, error_to_raise)
Validate ==
    /\ probe.result = "none"
    /\ probe' = [probe EXCEPT !.result =
                    validate_ticket(probe.row, probe.seat,
                                    [rows |-> probe.rows,
                                     seats_in_row |-> probe.seats_in_row])]
    /\ UNCHANGED <<airplanes, flights, orders, tickets, nextOrderId, last, txn>>

NextValidate == Validate

SpecValidate == InitValidate /\ [][NextValidate]_vars

----------------------------------------------------------------------------
(* Claims on the order and ticket subsystem.                               *)

\* The Ticket rows an accepted payload stands for, as a bag.
RECURSIVE PayloadTickets(_, _)
PayloadTickets(payload, id) ==
    IF payload = <<>> THEN EmptyBag
    ELSE LET d == Head(payload) IN
         SetToBag({[row |-> d.row, seat |-> d.seat, flight |-> d.flight, order |-> id]})
            (+) PayloadTickets(Tail(payload), id)

\* The number of entries of a payload that are for flight f.
EntriesOn(payload, f) == Cardinality({i \in 1..Len(payload) : payload[i].flight = f})

\* The number of stored rows of table T among the distinct rows S.
RECURSIVE StoredRows(_, _)
StoredRows(T, S) ==
    IF S = {} THEN 0
    ELSE LET t == CHOOSE x \in S : TRUE IN T[t] + StoredRows(T, S \ {t})

\* C1: in every reachable state no two persisted tickets have the same
\* (flight, row, seat): every Ticket row is stored once, and two rows that
\* agree on flight, row and seat are the same row.
C1_SeatUnique ==
    \A t1 \in DOMAIN tickets :
        /\ tickets[t1] = 1
        /\ \A t2 \in DOMAIN tickets :
              (t1.flight = t2.flight /\ t1.row = t2.row /\ t1.seat = t2.seat) => t1 = t2

\* C1 witness: a ticket saved through the model for a seat another order
\* holds was refused, and the first ticket is still the seat's only one.
C1_Witness ==
    /\ last.op = "create_ticket"
    /\ last.error = "ValidationError"
    /\ \E t \in DOMAIN tickets :
          /\ t.row = last.tickets[1].row /\ t.seat = last.tickets[1].seat
          /\ t.flight = last.tickets[1].flight /\ t.order # last.order

\* C2: validate_ticket succeeds exactly when 1 <= row < airplane.rows and
\* 1 <= seat < airplane.seats_in_row; it fails for row = 0, row = rows,
\* seat = 0 and seat = seats_in_row.
C2_ValidateTicketRange ==
    probe.result \notin {"unused", "none"} =>
        /\ (probe.result = "ok") <=>
              (/\ 1 <= probe.row /\ probe.row < probe.rows
               /\ 1 <= probe.seat /\ probe.seat < probe.seats_in_row)
        /\ (probe.row = 0 \/ probe.row = probe.rows) => probe.result = "row"
        /\ (probe.seat = 0 \/ probe.seat = probe.seats_in_row) => probe.result # "ok"

\* C2 witness: the last row of a two-row airplane was validated and refused
\* although the seat is in range.
C2_Witness ==
    /\ probe.result = "row"
    /\ probe.rows = 2 /\ probe.row = probe.rows
    /\ 1 <= probe.seat /\ probe.seat < probe.seats_in_row

\* C4: POST /orders by an authenticated user with an empty tickets list is
\* answered 400 (a validation error) and persists neither an Order nor a Ticket.
C4_EmptyOrderRejected ==
    [][(/\ last'.op = "create_order"
        /\ is_authenticated(last'.user)
        /\ last'.tickets = <<>>)
       => (/\ last'.status = 400
           /\ last'.error = "ValidationError"
           /\ orders' = orders
           /\ tickets' = tickets)]_vars

\* C4 witness: an authenticated user's empty order was answered 400.
C4_Witness ==
    /\ last.op = "create_order"
    /\ is_authenticated(last.user)
    /\ last.tickets = <<>>
    /\ last.status = 400

\* C5: order creation is all-or-nothing: after POST /orders either (201) the
\* new Order and one Ticket per entry of the payload were added and nothing
\* else changed, or the Order and Ticket tables are exactly what they were.
C5_OrderAtomic ==
    [][last'.op = "create_order" =>
        \/ /\ last'.status = 201
           /\ last'.order \notin DOMAIN orders
           /\ DOMAIN orders' = DOMAIN orders \cup {last'.order}
           /\ orders'[last'.order] = [user |-> last'.user]
           /\ \A id \in DOMAIN orders : orders'[id] = orders[id]
           /\ tickets' = tickets (+) PayloadTickets(last'.tickets, last'.order)
        \/ /\ last'.status # 201
           /\ orders' = orders
           /\ tickets' = tickets]_vars

\* C5 witness: a two-entry order failed on its second entry, after the Order
\* and the first Ticket had been written inside the transaction.
C5_Witness ==
    /\ last.op = "create_order"
    /\ last.status = 500
    /\ Len(last.tickets) = 2
    /\ validate_ticket(last.tickets[1].row, last.tickets[1].seat,
                       airplanes[flights[last.tickets[1].flight].airplane]) = "ok"
    /\ ~SeatTaken(tickets, last.tickets[1].row, last.tickets[1].seat,
                  last.tickets[1].flight)

\* C7: a flight's tickets_available is rows * seats_in_row of its airplane
\* minus the number of Ticket rows of the flight, in every state ...
C7_AvailableIsCapacityLessSold ==
    \A f \in DOMAIN flights :
        tickets_available(flights, tickets, f) =
            airplanes[flights[f].airplane].rows
                * airplanes[flights[f].airplane].seats_in_row
            - StoredRows(tickets, {t \in DOMAIN tickets : t.flight = f})

\* ... and a successful creation of N tickets on the flight (by POST /orders
\* or through the model) lowers it by exactly N.
C7_CreationLowersAvailable ==
    (/\ last'.op \in {"create_order", "create_ticket"}
     /\ last'.status \in {201, 0} /\ last'.error = "")
    => \A f \in DOMAIN flights :
          tickets_available(flights', tickets', f) =
              tickets_available(flights, tickets, f) - EntriesOn(last'.tickets, f)

\* C7: both parts.
C7_TicketsAvailable ==
    []C7_AvailableIsCapacityLessSold
        /\ [][C7_CreationLowersAvailable]_vars

\* C7 witness: an order of two tickets on one flight was created, and the
\* flight has two seats fewer than its airplane's capacity.
C7_Witness ==
    /\ last.op = "create_order" /\ last.status = 201
    /\ Len(last.tickets) = 2
    /\ last.tickets[1].flight = last.tickets[2].flight
    /\ tickets_available(flights, tickets, last.tickets[1].flight) =
          capacity(airplanes[flights[last.tickets[1].flight].airplane]) - 2

\* C8: DELETE /orders/{id} answered 204 removes exactly that Order and its
\* Tickets: every other Order and every Ticket of another Order stay as they
\* were, no Flight changes, and each flight's tickets_available rises by the
\* number of tickets the deleted order held on it.
C8_DeleteCascades ==
    [][(last'.op = "delete_order" /\ last'.status = 204) =>
        LET id == last'.order IN
        /\ id \in DOMAIN orders
        /\ DOMAIN orders' = DOMAIN orders \ {id}
        /\ \A o \in DOMAIN orders' : orders'[o] = orders[o]
        /\ \A t \in DOMAIN tickets :
              IF t.order = id THEN t \notin DOMAIN tickets'
              ELSE t \in DOMAIN tickets' /\ tickets'[t] = tickets[t]
        /\ DOMAIN tickets' \subseteq DOMAIN tickets
        /\ flights' = flights
        /\ \A f \in DOMAIN flights :
              tickets_available(flights', tickets', f) =
                  tickets_available(flights, tickets, f)
                      + StoredRows(tickets, {t \in DOMAIN tickets :
                                                t.order = id /\ t.flight = f})]_vars

\* C8 witness: an order was deleted while the other order holds tickets on
\* both flights, which are still there.
C8_Witness ==
    /\ last.op = "delete_order" /\ last.status = 204
    /\ \A f \in DOMAIN flights :
          \E t \in DOMAIN tickets : t.flight = f /\ t.order # last.order

\* C9: GET /orders answers exactly the requester's own orders ...
C9_ListIsOwn ==
    (last.op = "list_orders" /\ last.status = 200) =>
        last.body = {id \in DOMAIN orders : orders[id].user = last.user}

\* ... and a retrieve or delete of another user's order is answered 404 or
\* 403 and leaves the Order and Ticket tables as they were.
C9_OthersOrderUntouched ==
    (/\ last'.op \in {"retrieve_order", "delete_order"}
     /\ is_authenticated(last'.user)
     /\ last'.order \in DOMAIN orders
     /\ orders[last'.order].user # last'.user)
    => (/\ last'.status \in {403, 404}
        /\ last'.body = {}
        /\ orders' = orders
        /\ tickets' = tickets)

\* C9: both parts.
C9_OrdersScopedToUser == []C9_ListIsOwn /\ [][C9_OthersOrderUntouched]_vars

\* C9 witness: a user's DELETE of an order that exists and belongs to the
\* other user was answered 404, and the order still has its tickets.
C9_Witness ==
    /\ last.op = "delete_order" /\ last.status = 404
    /\ is_authenticated(last.user)
    /\ last.order \in DOMAIN orders
    /\ orders[last.order].user # last.user
    /\ OrderTickets(tickets, last.order) # EmptyBag

----------------------------------------------------------------------------
(* Flight times.                                                           *)

\* The flight data of the request are acceptable but for their times: an
\* existing route and airplane, and for POST /flights a non-empty crew.
ValidReferences(r) ==
    /\ r.data.route \in Routes
    /\ r.data.airplane \in DOMAIN airplanes
    /\ r.data.crew \subseteq Crews
    /\ r.op = "post_flight" => r.data.crew # {}

\* C3: a Flight created (POST /flights by staff, or through the model) or
\* updated (through the model) with departure_time >= arrival_time is refused
\* (400 for the request, ValidationError for the model) and the stored flights
\* stay as they were; with departure_time < arrival_time and valid references
\* it succeeds (201, no error) and the flight is stored with the given data.
C3_FlightTimesChecked ==
    [][LET r == last'
       IN (/\ r.op \in {"post_flight", "create_flight", "save_flight"}
           /\ r.status \notin {401, 403})
          => /\ r.data.departure_time >= r.data.arrival_time
                => /\ flights' = flights
                   /\ IF r.op = "post_flight" THEN r.status = 400
                      ELSE r.error = "ValidationError"
             /\ (r.data.departure_time < r.data.arrival_time /\ ValidReferences(r))
                => /\ IF r.op = "post_flight" THEN r.status = 201 ELSE r.error = ""
                   /\ r.flight \in DOMAIN flights'
                   /\ flights'[r.flight] = r.data
                   /\ \A f \in DOMAIN flights : f # r.flight => flights'[f] = flights[f]
                   /\ DOMAIN flights' = DOMAIN flights \cup {r.flight}]_vars

\* A stored flight was just refused an update to equal times, and kept its own.
C3_Witness ==
    /\ last.op = "save_flight"
    /\ last.error = "ValidationError"
    /\ last.data.departure_time = last.data.arrival_time
    /\ last.flight \in DOMAIN flights
    /\ flights[last.flight].departure_time < flights[last.flight].arrival_time
    /\ \E f \in DOMAIN flights : f # last.flight

----------------------------------------------------------------------------
(* Authentication.                                                         *)

\* C10: every request made without authentication to an order, flight or
\* airplane endpoint (the unrouted methods included) is answered 401 and
\* leaves airplanes, flights, orders and tickets as they were.
C10_AnonymousRefused ==
    [][(last'.op # "none" /\ last'.user = Anonymous)
       => /\ last'.status = 401
          /\ UNCHANGED <<airplanes, flights, orders, tickets, nextOrderId>>]_vars

\* An anonymous caller has just been refused the deletion of a stored order
\* that holds tickets.
C10_Witness ==
    /\ last.op = "delete_order"
    /\ last.user = Anonymous
    /\ last.status = 401
    /\ last.order \in DOMAIN orders
    /\ OrderTickets(tickets, last.order) # EmptyBag

----------------------------------------------------------------------------
(* Concurrent order creation.                                              *)

\* The seats a payload claims.
Seats(payload) ==
    {[row |-> payload[i].row, seat |-> payload[i].seat, flight |-> payload[i].flight] :
        i \in 1..Len(payload)}

\* The number of stored tickets that hold seat s.
Holders(T, s) ==
    StoredRows(T, {t \in DOMAIN T :
                      t.row = s.row /\ t.seat = s.seat /\ t.flight = s.flight})

\* Request r, handled alone against the initial store, would be accepted.
AcceptedAlone(r) ==
    /\ OrderSerializer_is_valid(flights, EmptyBag, txn[r].payload)
    /\ OrderSerializer_create(flights, NoOrders, EmptyBag, 1, txn[r].user,
                              txn[r].payload).error = "ok"

\* The two requests are each acceptable alone and claim a common seat.
Contend ==
    /\ \A r \in Requests : AcceptedAlone(r)
    /\ Seats(txn[1].payload) \cap Seats(txn[2].payload) # {}

\* C6: two concurrent order creations, each acceptable on its own, that claim
\* a common (flight, row, seat): under every interleaving of their validate,
\* clean, insert and commit steps no seat is ever held by two tickets, and
\* once both are answered exactly one has failed (400 or 500) and the other
\* has succeeded (201), the store holds the rows of the successful request
\* only, and each common seat is held by exactly one ticket.
C6_OneOfTwoWins ==
    Contend =>
        /\ \A s \in Seats(txn[1].payload) \cup Seats(txn[2].payload) :
              Holders(tickets, s) <= 1
        /\ (\A r \in Requests : txn[r].pc = "done") =>
              \E r \in Requests :
                 /\ txn[r].status = 201
                 /\ txn[Other(r)].status \in {400, 500}
                 /\ DOMAIN orders = {txn[r].order}
                 /\ tickets = PayloadTickets(txn[r].payload, txn[r].order)
                 /\ \A s \in Seats(txn[1].payload) \cap Seats(txn[2].payload) :
                       Holders(tickets, s) = 1

\* Both requests passed validation, one committed, and the other, whose INSERT
\* had waited for that commit, failed on the unique index.
C6_Witness ==
    /\ Contend
    /\ \A r \in Requests : txn[r].pc = "done"
    /\ \E r \in Requests :
          /\ txn[r].status = 201
          /\ txn[Other(r)].error = "IntegrityError"
          /\ Holders(tickets, [row |-> 1, seat |-> 1, flight |-> 1]) = 1

----------------------------------------------------------------------------
(* Flight search.                                                          *)

\* value occurs in field as a run of characters, letter case set aside.
Occurs(value, field) ==
    \E a \in 0..Len(field) : \E b \in a..Len(field) :
        lower(SubSeq(field, a + 1, b)) = lower(value)

\* Flight f satisfies every text filter that query q supplies.
SatisfiesText(f, q) ==
    LET route == RouteTable[flights[f].route]
    IN /\ q.source_airport # <<>> => Occurs(q.source_airport, Airports[route.source].name)
       /\ q.destination_airport # <<>> =>
             Occurs(q.destination_airport, Airports[route.destination].name)
       /\ q.source_city # <<>> =>
             Occurs(q.source_city, Airports[route.source].closest_big_city)
       /\ q.destination_city # <<>> =>
             Occurs(q.destination_city, Airports[route.destination].closest_big_city)
       /\ q.airplane # <<>> => Occurs(q.airplane, airplanes[flights[f].airplane].name)

\* The last request was a GET /flights that was answered with a page.
Listed == last.op = "list_flights" /\ last.status = 200

\* C11: for any subset of the text filters source_airport,
\* destination_airport, source_city, destination_city and airplane, GET
\* /flights returns exactly the flights that satisfy every supplied filter
\* (the field contains the value, case-insensitively); a flight failing one
\* of them is never returned, whatever the other parameters.
C11_TextFiltersConjoined ==
    Listed =>
        /\ \A f \in last.body : SatisfiesText(f, last.query)
        /\ (last.query.crew = <<>> /\ last.query.date_departure = <<>>
               /\ last.query.date_arrival = <<>>)
           => last.body = {f \in DOMAIN flights : SatisfiesText(f, last.query)}

\* Two text filters were supplied, one of them matching inside the field and
\* in another letter case; one flight was returned and another was not.
C11_Witness ==
    /\ Listed
    /\ last.query.airplane = <<"a">>
    /\ last.query.source_city = <<"X", "A">>
    /\ last.query.crew = <<>>
    /\ last.body # {}
    /\ last.body # DOMAIN flights

\* No other parameter than crew is supplied.
OnlyCrew(q) == q = [NoQuery EXCEPT !.crew = q.crew]

\* C12: GET /flights with crew=<id1>,<id2>,... returns every flight whose
\* crew has a member among the given ids and no flight whose crew has none,
\* and each returned flight appears once in the results, also when several
\* of its crew members are among the ids.
C12_CrewFilter ==
    (Listed /\ last.query.crew # <<>>) =>
        LET ids == _params_to_ints(last.query.crew).ids
        IN /\ \A f \in last.body : flights[f].crew \cap ids # {}
           /\ OnlyCrew(last.query) =>
                 last.body = {f \in DOMAIN flights : flights[f].crew \cap ids # {}}
           /\ \A i \in DOMAIN last.results : \A j \in DOMAIN last.results :
                 last.results[i] = last.results[j] => i = j

\* Two ids were given, and a flight whose crew holds both was returned next
\* to a flight whose crew holds one of them.
C12_Witness ==
    /\ Listed
    /\ last.query = [NoQuery EXCEPT !.crew = <<"1", ",", " ", "2">>]
    /\ \E f \in last.body : flights[f].crew = {1, 2}
    /\ \E f \in last.body : flights[f].crew = {2}

\* The calendar day of the ledger's month a tick falls on, and the day a date
\* of that month names, both counted from 0.
DayOfTick(time) == time \div TicksPerDay
DayOfDate(date) == date[3] - 1

\* C13: GET /flights with date_departure=D returns exactly the flights whose
\* departure_time falls on calendar date D or a later one (at any time of
\* day on D; a departure on an earlier date is left out), and date_arrival=D
\* does the same against arrival_time.
C13_DateFilters ==
    Listed =>
        /\ last.query.date_departure # <<>> =>
              /\ \A f \in last.body :
                    DayOfTick(flights[f].departure_time)
                        >= DayOfDate(last.query.date_departure)
              /\ last.query = [NoQuery EXCEPT !.date_departure = last.query.date_departure]
                 => last.body = {f \in DOMAIN flights :
                                    DayOfTick(flights[f].departure_time)
                                        >= DayOfDate(last.query.date_departure)}
        /\ last.query.date_arrival # <<>> =>
              /\ \A f \in last.body :
                    DayOfTick(flights[f].arrival_time)
                        >= DayOfDate(last.query.date_arrival)
              /\ last.query = [NoQuery EXCEPT !.date_arrival = last.query.date_arrival]
                 => last.body = {f \in DOMAIN flights :
                                    DayOfTick(flights[f].arrival_time)
                                        >= DayOfDate(last.query.date_arrival)}

\* Asked for departures from 2 August on, the list holds a flight that
\* departs at the first tick of that day and leaves out one of 1 August.
C13_Witness ==
    /\ Listed
    /\ last.query = [NoQuery EXCEPT !.date_departure = <<2024, 8, 2>>]
    /\ \E f \in last.body : flights[f].departure_time = TicksPerDay
    /\ \E f \in DOMAIN flights : f \notin last.body /\ flights[f].departure_time < TicksPerDay

\* C14: for every combination of filter parameters the flights GET /flights
\* returns are in non-decreasing order of departure_time and no flight is
\* returned twice.
C14_OrderedAndDistinct ==
    Listed =>
        \A i \in DOMAIN last.results : \A j \in DOMAIN last.results :
            i < j => /\ flights[last.results[i]].departure_time
                          <= flights[last.results[j]].departure_time
                     /\ last.results[i] # last.results[j]

\* A crew filter that matches a flight on two ids, with a date filter, and a
\* list in which the flight stored second comes before the flight stored first.
C14_Witness ==
    /\ Listed
    /\ last.query.crew = <<"1", ",", " ", "2">>
    /\ last.query.date_arrival # <<>>
    /\ Len(last.results) >= 2
    /\ last.results[1] > last.results[2]
    /\ flights[last.results[1]].departure_time < flights[last.results[2]].departure_time
    /\ flights[last.results[2]].crew = {1, 2}

\* The crew parameter is no comma-separated list of integers, or a date
\* parameter is no date.
Malformed(q) ==
    \/ q.crew # <<>> /\ _params_to_ints(q.crew).error # "ok"
    \/ q.date_departure # <<>> /\ strptime(q.date_departure).error # "ok"
    \/ q.date_arrival # <<>> /\ strptime(q.date_arrival).error # "ok"

\* C15: a GET /flights whose crew parameter is not a comma-separated list of
\* integers, or whose date_departure or date_arrival is not a date, is
\* answered with a 400-class client error: it is neither ignored (200) nor
\* turned into a server failure (500).
C15_MalformedIsClientError ==
    (last.op = "list_flights" /\ is_authenticated(last.user) /\ Malformed(last.query))
        => last.status \in 400..499

----------------------------------------------------------------------------
(* Failures while an order is created.                                     *)

\* Entries i and j of the payload claim the same seat of the same flight.
SameSeat(payload, i, j) ==
    /\ payload[i].row = payload[j].row
    /\ payload[i].seat = payload[j].seat
    /\ payload[i].flight = payload[j].flight

\* The first entry of the payload that repeats an earlier one, 0 if none does.
FirstRepeat(payload) ==
    IF \E j \in 1..Len(payload) : \E i \in 1..(j - 1) : SameSeat(payload, i, j)
    THEN CHOOSE j \in 1..Len(payload) :
            /\ \E i \in 1..(j - 1) : SameSeat(payload, i, j)
            /\ \A k \in 1..(j - 1) : \A i \in 1..(k - 1) : ~SameSeat(payload, i, k)
    ELSE 0

\* C16: a POST /orders whose ticket list holds two entries with the same
\* (row, seat, flight) fails, and no Order and no Ticket of the request is
\* stored; when every entry passes the serializer, the entries before the
\* repeated one are saved and it is the repeated entry whose save fails.
C16_RepeatedEntryFails ==
    [][LET r == last'
           j == FirstRepeat(r.tickets)
       IN (r.op = "create_order" /\ is_authenticated(r.user) /\ j > 0)
          => /\ r.status \in {400, 500}
             /\ orders' = orders
             /\ tickets' = tickets
             /\ OrderSerializer_is_valid(flights, tickets, r.tickets)
                => /\ r.status = 500
                   /\ r.error = "ValidationError"
                   /\ create_tickets(flights, tickets, nextOrderId,
                                     SubSeq(r.tickets, 1, j - 1), 1).error = "ok"
                   /\ create_tickets(flights, tickets, nextOrderId,
                                     SubSeq(r.tickets, 1, j), 1).error # "ok"]_vars

\* An order that names a free seat twice was refused while saving the second
\* entry, and the store, which holds another order, has no ticket for the seat.
C16_Witness ==
    /\ last.op = "create_order"
    /\ last.status = 500
    /\ Len(last.tickets) = 2
    /\ SameSeat(last.tickets, 1, 2)
    /\ orders # NoOrders
    /\ ~SeatTaken(tickets, last.tickets[1].row, last.tickets[1].seat,
                  last.tickets[1].flight)

\* Request r of SpecConc got past validation and then lost the seat: its
\* transaction was ended by Ticket.full_clean or by the unique index.
LostSeat(r) ==
    /\ txn[r].pc = "done"
    /\ txn[r].order # 0
    /\ txn[r].error \in {"ValidationError", "IntegrityError"}

\* C17: a seat-uniqueness violation found while the tickets of an order are
\* saved (a seat held by a stored ticket, also one lost in a race after the
\* request passed validation) is answered with a 400 or 409, not with a
\* server failure, and nothing the request wrote is kept.
C17_ConflictIsClientError ==
    \A r \in Requests :
        LostSeat(r) =>
            /\ txn[r].status \in {400, 409}
            /\ txn[r].order \notin DOMAIN orders
            /\ OrderTickets(tickets, txn[r].order) = EmptyBag

\* ---------------------------------------------------------------------------
\* Writing flights and airplanes
\* ---------------------------------------------------------------------------

\* C18: POST /flights by an authenticated user who is not staff is answered
\* with 403 and stores no Flight; the same payload, when valid, posted by a
\* staff user is answered with 201 and stores one new Flight with the given
\* route, airplane, departure and arrival times and exactly the given crew.
C18_PostFlightAdminOnly ==
    [][LET r == last'
       IN r.op = "post_flight"
          => /\ (is_authenticated(r.user) /\ ~is_staff(r.user))
                => /\ r.status = 403
                   /\ flights' = flights
             /\ (is_staff(r.user) /\ FlightSerializer_is_valid(r.data))
                => /\ r.status = 201
                   /\ r.flight \notin DOMAIN flights
                   /\ DOMAIN flights' = DOMAIN flights \cup {r.flight}
                   /\ \A f \in DOMAIN flights : flights'[f] = flights[f]
                   /\ flights'[r.flight].route = r.data.route
                   /\ flights'[r.flight].airplane = r.data.airplane
                   /\ flights'[r.flight].departure_time = r.data.departure_time
                   /\ flights'[r.flight].arrival_time = r.data.arrival_time
                   /\ flights'[r.flight].crew = r.data.crew]_vars

\* A non-staff user was just refused a valid payload with two crew members
\* that a staff user had posted before, whose flight is stored.
C18_Witness ==
    /\ last.op = "post_flight"
    /\ last.user = "user"
    /\ last.status = 403
    /\ FlightSerializer_is_valid(last.data)
    /\ last.data.crew = {1, 2}
    /\ \E f \in DOMAIN flights : flights[f] = last.data

\* The flights, airplanes and orders stored before a step, compared with
\* those after it.
FlightsKept == \A f \in DOMAIN flights : f \in DOMAIN flights' /\ flights'[f] = flights[f]

AirplaneKept(a) == a \in DOMAIN airplanes' /\ airplanes'[a] = airplanes[a]

OrdersNotUpdated ==
    \A o \in DOMAIN orders \cap DOMAIN orders' :
        /\ orders'[o] = orders[o]
        /\ OrderTickets(tickets', o) = OrderTickets(tickets, o)

\* The request answered by a step was a PUT, PATCH or DELETE on a record of
\* a view set that has no handler for it.
IsUnrouted(r) == \E call \in Unrouted : r.op = call.method /\ r.body = {call.resource}

\* Whom the permission class of the record's view set lets through.
Admitted(r) == IF r.body = {"orders"} THEN is_authenticated(r.user) ELSE is_staff(r.user)

\* C19 (as the code has it): the only HTTP operation that updates a stored
\* Flight or Airplane is POST /airplanes/{id}/upload-image by staff, which
\* replaces the image of that airplane and nothing else; none deletes a
\* Flight or an Airplane and none updates an Order.  PUT, PATCH and DELETE
\* on a flight or airplane and PUT and PATCH on an order are answered 405
\* for the callers the view set's permission admits, staff included, and
\* 401 or 403 for the others; in each case every record stays as it was.
C19_OnlyImageUpdated ==
    [][LET r == last'
       IN /\ FlightsKept
          /\ OrdersNotUpdated
          /\ \A a \in DOMAIN airplanes :
                \/ AirplaneKept(a)
                \/ /\ r.op = "upload_image" /\ r.status = 200 /\ r.flight = a
                   /\ is_staff(r.user)
                   /\ a \in DOMAIN airplanes'
                   /\ airplanes'[a] = [airplanes[a] EXCEPT !.image = airplanes'[a].image]
          /\ IsUnrouted(r)
             => /\ r.status = IF Admitted(r) THEN 405
                              ELSE IF is_authenticated(r.user) THEN 403 ELSE 401
                /\ UNCHANGED <<airplanes, flights, orders, tickets>>]_vars

\* C19: no HTTP operation updates or deletes a stored Flight or Airplane and
\* none updates a stored Order; PUT on a flight, airplane or order and DELETE
\* on a flight or airplane are answered 405 and leave the record unchanged,
\* for staff as for everyone else.
C19_NothingUpdated ==
    [][LET r == last'
       IN /\ FlightsKept
          /\ OrdersNotUpdated
          /\ \A a \in DOMAIN airplanes : AirplaneKept(a)
          /\ (IsUnrouted(r) /\ r.op \in {"PUT", "DELETE"})
             => /\ r.status = 405
                /\ UNCHANGED <<airplanes, flights, orders, tickets>>]_vars

\* Staff were just refused the DELETE of an airplane whose image had been
\* uploaded before; the airplane is stored, image included.
C19_Witness ==
    /\ last.op = "DELETE"
    /\ last.body = {"airplanes"}
    /\ last.user = "staff"
    /\ last.status = 405
    /\ last.flight \in DOMAIN airplanes
    /\ airplanes[last.flight].image # <<>>

\* ---------------------------------------------------------------------------
\* Pagination of GET /flights
\* ---------------------------------------------------------------------------

Min(a, b) == IF a <= b THEN a ELSE b

\* The number of flights per page the request of SpecPage is entitled to:
\* page_size unless it asks for another, and then what it asks for, up to
\* max_page_size.
Entitled(p) == IF p.page_size = <<>> THEN page_size ELSE Min(p.page_size[1], max_page_size)

\* C20: GET /flights is paginated, 20 flights to the page unless the client
\* asks for another size; a client can raise the size up to 100 and no
\* further: the first page holds the entitled number of flights, or all of
\* them when there are fewer.
C20_ClientPageSize ==
    (/\ probe.done
     /\ probe.page \in {<<>>, <<1>>}
     /\ probe.page_size = <<>> \/ probe.page_size[1] >= page_size)
        => /\ probe.result.error = "ok"
           /\ Len(probe.result.results) = Min(Entitled(probe), probe.rows)

\* ---------------------------------------------------------------------------
\* Airplanes
\* ---------------------------------------------------------------------------

\* The fields of an airplane other than its image.
Particulars(airplane) ==
    [name |-> airplane.name, rows |-> airplane.rows,
     seats_in_row |-> airplane.seats_in_row, airplane_type |-> airplane.airplane_type]

\* C21: the image of an airplane is set only by POST /airplanes/{id}/upload-image
\* of a staff user.  A staff POST /airplanes with an image in an otherwise
\* valid payload is answered 201 and stores the airplane without image; an
\* upload that is no image is answered 400 and leaves every airplane as it
\* was; an upload of an image is answered 200 and changes the image of that
\* airplane and nothing else.
C21_ImageOnlyByUpload ==
    [][LET r == last'
       IN /\ \A a \in DOMAIN airplanes' :
                (a \notin DOMAIN airplanes \/ airplanes'[a].image # airplanes[a].image)
                => IF a \in DOMAIN airplanes
                   THEN /\ r.op = "upload_image" /\ r.status = 200 /\ r.flight = a
                        /\ is_staff(r.user)
                   ELSE airplanes'[a].image = <<>>
          /\ (/\ r.op = "post_airplane" /\ is_staff(r.user)
              /\ r.data.image # <<>> /\ r.data.airplane_type \in AirplaneTypes)
             => /\ r.status = 201
                /\ r.flight \in DOMAIN airplanes' \ DOMAIN airplanes
                /\ airplanes'[r.flight].image = <<>>
                /\ Particulars(airplanes'[r.flight]) = Particulars(r.data)
          /\ (/\ r.op = "upload_image" /\ is_staff(r.user)
              /\ r.flight \in DOMAIN airplanes)
             => IF r.data.is_image
                THEN /\ r.status = 200
                     /\ DOMAIN airplanes' = DOMAIN airplanes
                     /\ \A a \in DOMAIN airplanes :
                           /\ Particulars(airplanes'[a]) = Particulars(airplanes[a])
                           /\ a # r.flight => airplanes'[a] = airplanes[a]
                     /\ airplanes'[r.flight].image # <<>>
                ELSE /\ r.status = 400
                     /\ airplanes' = airplanes]_vars

\* Staff just posted an airplane with an image in the payload: it is stored
\* without image, next to an airplane whose image was uploaded before.
C21_Witness ==
    /\ last.op = "post_airplane"
    /\ last.status = 201
    /\ last.data.image # <<>>
    /\ airplanes[last.flight].image = <<>>
    /\ \E a \in DOMAIN airplanes : airplanes[a].image # <<>>

\* C22: every stored Airplane has rows >= 1 and seats_in_row >= 1, so its
\* capacity is at least 1: a POST /airplanes with rows or seats_in_row of
\* zero or less is refused.
C22_PositiveDimensions ==
    /\ \A a \in DOMAIN airplanes :
          /\ airplanes[a].rows >= 1
          /\ airplanes[a].seats_in_row >= 1
          /\ capacity(airplanes[a]) >= 1
    /\ (/\ last.op = "post_airplane" /\ is_staff(last.user)
        /\ last.data.rows <= 0 \/ last.data.seats_in_row <= 0)
       => last.status = 400

\* ---------------------------------------------------------------------------
\* The two ways a ticket is created
\* ---------------------------------------------------------------------------

\* The seat-bound rule for an entry or ticket d on the airplane of its flight.
InBounds(F, d) ==
    /\ d.row \in 1..(airplanes[F[d.flight].airplane].rows - 1)
    /\ d.seat \in 1..(airplanes[F[d.flight].airplane].seats_in_row - 1)

\* C23: a ticket saved through the model and a ticket nested in the payload
\* of POST /orders meet the same seat-bound rule: on a free seat either is
\* accepted exactly when 1 <= row <= rows - 1 and 1 <= seat <= seats_in_row - 1
\* on the airplane of its flight, each is accepted exactly when the other
\* would be in the same state, and no stored ticket lies outside the bounds.
C23_SameBoundsOnBothPaths ==
    [][LET r == last'
       IN /\ \A t \in DOMAIN tickets' : InBounds(flights, t)
          /\ ((r.op = "create_ticket"
               \/ (r.op = "create_order" /\ is_authenticated(r.user)))
              /\ Len(r.tickets) = 1)
             => LET d      == r.tickets[1]
                    free   == ~SeatTaken(tickets, d.row, d.seat, d.flight)
                    stored == IF r.op = "create_ticket" THEN r.error = ""
                              ELSE r.status = 201
                    model  == Ticket_save(flights, tickets,
                                  [row |-> d.row, seat |-> d.seat,
                                   flight |-> d.flight, order |-> nextOrderId])
                    nested == /\ OrderSerializer_is_valid(flights, tickets, <<d>>)
                              /\ OrderSerializer_create(flights, orders, tickets,
                                     nextOrderId, "user", <<d>>).error = "ok"
                IN /\ free => (stored <=> InBounds(flights, d))
                   /\ stored <=> (model.error = "ok")
                   /\ stored <=> nested
                   /\ ~stored => tickets' = tickets]_vars

\* A ticket for a free seat in the last row of its airplane was just refused
\* through the model, in a state that holds a ticket sold through an order.
C23_Witness ==
    /\ last.op = "create_ticket"
    /\ last.error = "ValidationError"
    /\ ~SeatTaken(tickets, last.tickets[1].row, last.tickets[1].seat,
                  last.tickets[1].flight)
    /\ last.tickets[1].row = airplanes[flights[last.tickets[1].flight].airplane].rows
    /\ tickets # EmptyBag

\* ---------------------------------------------------------------------------
\* Flight times
\* ---------------------------------------------------------------------------

\* Every flight of ledger F leaves before it arrives.
TimesOrdered(F) == \A f \in DOMAIN F : F[f].departure_time < F[f].arrival_time

\* C24: every stored Flight has departure_time < arrival_time in every
\* reachable state, because Flight.save validates on every save: a stored
\* flight whose times are changed to departure_time >= arrival_time and
\* saved is refused with ValidationError and keeps the times it had.
C24_TimesAlwaysOrdered ==
    [][LET r == last'
       IN /\ TimesOrdered(flights)
          /\ TimesOrdered(flights')
          /\ (/\ r.op = "save_flight"
              /\ r.data.departure_time >= r.data.arrival_time)
             => /\ r.error = "ValidationError"
                /\ r.flight \in DOMAIN flights
                /\ flights' = flights]_vars

\* A stored flight that leaves after time 0 was just refused times that run
\* backwards, and every stored flight has its times in order.
C24_Witness ==
    /\ last.op = "save_flight"
    /\ last.error = "ValidationError"
    /\ last.data.departure_time > last.data.arrival_time
    /\ last.flight \in DOMAIN flights
    /\ flights[last.flight].departure_time > 0
    /\ TimesOrdered(flights)

\* ---------------------------------------------------------------------------
\* Tickets and orders once stored
\* ---------------------------------------------------------------------------

\* C25: no request changes the row, seat, flight or order of a stored
\* Ticket: over every step a stored ticket either stays exactly as it was,
\* or is removed, and then by the DELETE of the order it belongs to.
C25_TicketsNeverUpdated ==
    [][\A t \in DOMAIN tickets :
          IF t.order \in DOMAIN orders'
          THEN t \in DOMAIN tickets' /\ tickets'[t] = tickets[t]
          ELSE /\ last'.op = "delete_order"
               /\ last'.status = 204
               /\ last'.order = t.order
               /\ t \notin DOMAIN tickets']_vars

\* An order was just deleted with its tickets, and a ticket of another order
\* is stored as before.
C25_Witness ==
    /\ last.op = "delete_order"
    /\ last.status = 204
    /\ last.order \notin DOMAIN orders
    /\ OrderTickets(tickets, last.order) = EmptyBag
    /\ \E t \in DOMAIN tickets : t.order \in DOMAIN orders

\* The seats that order o holds on flight f.
SeatsOf(o, f) ==
    {[row |-> t.row, seat |-> t.seat] :
        t \in {x \in DOMAIN tickets : x.order = o /\ x.flight = f}}

\* C26: the detail of an order groups its tickets by flight: every flight on
\* which the order has a ticket is listed once and no other flight is; under
\* each flight every ticket of the order for that flight is listed once, and
\* nothing else, so no ticket of another order.
C26_DetailGroupsByFlight ==
    (last.op = "retrieve_order" /\ last.status = 200)
        => LET groups == last.results
               o == last.order
           IN /\ \A i, j \in 1..Len(groups) : groups[i].id = groups[j].id => i = j
              /\ {groups[i].id : i \in 1..Len(groups)}
                    = {t.flight : t \in DOMAIN OrderTickets(tickets, o)}
              /\ \A i \in 1..Len(groups) :
                    LET listed == groups[i].tickets
                    IN /\ {listed[k] : k \in 1..Len(listed)} = SeatsOf(o, groups[i].id)
                       /\ Len(listed) = Cardinality(SeatsOf(o, groups[i].id))

\* The detail just read lists two flights, one of them with two tickets,
\* while another order holds a ticket too.
C26_Witness ==
    /\ last.op = "retrieve_order"
    /\ last.status = 200
    /\ Len(last.results) = 2
    /\ \E i \in 1..2 : Len(last.results[i].tickets) = 2
    /\ \E t \in DOMAIN tickets : t.order # last.order

\* C27: whatever POST /orders and DELETE /orders/{id} requests were made,
\* every stored Order has at least one Ticket, and every stored Ticket
\* belongs to a stored Order and is for a stored Flight.
C27_NoOrphans ==
    /\ \A o \in DOMAIN orders : OrderTickets(tickets, o) # EmptyBag
    /\ \A t \in DOMAIN tickets : t.order \in DOMAIN orders /\ t.flight \in DOMAIN flights

\* The second order was just created after the first had been deleted.
C27_Witness ==
    /\ last.op = "create_order"
    /\ last.status = 201
    /\ last.order = 2
    /\ DOMAIN orders = {2}
    /\ BagCardinality(tickets) = Len(last.tickets)

\* ---------------------------------------------------------------------------
\* Seats left on a flight
\* ---------------------------------------------------------------------------

\* The number of stored tickets of flight f.
Sold(f) == BagCardinality(FlightTickets(tickets, f))

\* C28: a flight never sells out.  If its airplane has rows >= 1 and
\* seats_in_row >= 1, then whatever tickets and orders were created the
\* flight has at most (rows - 1) * (seats_in_row - 1) tickets, so its
\* tickets_available is at least rows + seats_in_row - 1 and is never zero
\* or less.
C28_NeverSoldOut ==
    \A f \in DOMAIN flights :
        LET airplane == airplanes[flights[f].airplane]
        IN (airplane.rows >= 1 /\ airplane.seats_in_row >= 1)
           => /\ Sold(f) <= (airplane.rows - 1) * (airplane.seats_in_row - 1)
              /\ tickets_available(flights, tickets, f)
                    >= airplane.rows + airplane.seats_in_row - 1
              /\ tickets_available(flights, tickets, f) > 0

\* Every seat that can be sold on a flight is sold, a ticket for a further
\* free seat of its airplane was just refused, and seats are still available.
C28_Witness ==
    /\ last.op \in {"create_order", "create_ticket"}
    /\ last.error = "ValidationError"
    /\ Len(last.tickets) = 1
    /\ LET d == last.tickets[1]
           airplane == airplanes[flights[d.flight].airplane]
       IN /\ ~SeatTaken(tickets, d.row, d.seat, d.flight)
          /\ Sold(d.flight) = (airplane.rows - 1) * (airplane.seats_in_row - 1)
          /\ tickets_available(flights, tickets, d.flight)
                = airplane.rows + airplane.seats_in_row - 1

\* ---------------------------------------------------------------------------
\* The owner of an order
\* ---------------------------------------------------------------------------

\* C29: an Order created by POST /orders belongs to the authenticated user
\* who made the request, whatever the request body says (a "user" key
\* included), and the owner of a stored order never changes.
C29_OwnerIsRequester ==
    [][/\ \A o \in DOMAIN orders' \ DOMAIN orders :
             /\ last'.op = "create_order"
             /\ last'.status = 201
             /\ last'.order = o
             /\ is_authenticated(last'.user)
             /\ orders'[o].user = last'.user
       /\ \A o \in DOMAIN orders \cap DOMAIN orders' :
             orders'[o].user = orders[o].user]_vars

\* A user just created an order with a request body naming staff as the
\* owner: the order is the user's.
C29_Witness ==
    /\ last.op = "create_order"
    /\ last.status = 201
    /\ last.user = "user"
    /\ last.data = [user |-> "staff"]
    /\ orders[last.order].user = "user"

\* ---------------------------------------------------------------------------
\* Filters on GET /flights/{id}
\* ---------------------------------------------------------------------------

\* Flight f satisfies every filter parameter that query q supplies; an empty
\* value supplies none.
Satisfies(f, q) ==
    /\ SatisfiesText(f, q)
    /\ q.crew # <<>> =>
          /\ _params_to_ints(q.crew).error = "ok"
          /\ flights[f].crew \cap _params_to_ints(q.crew).ids # {}
    /\ q.date_departure # <<>> =>
          /\ strptime(q.date_departure).error = "ok"
          /\ DayOfTick(flights[f].departure_time) >= DayOfDate(q.date_departure)
    /\ q.date_arrival # <<>> =>
          /\ strptime(q.date_arrival).error = "ok"
          /\ DayOfTick(flights[f].arrival_time) >= DayOfDate(q.date_arrival)

\* C30: the filters of the list apply to GET /flights/{id} too: the flight
\* is returned (200) exactly when it exists and satisfies every filter
\* parameter of the query string, and the answer is not-found (404) in every
\* other case; a parameter with an empty value counts as absent.
C30_FiltersOnRetrieve ==
    (last.op = "retrieve_flight" /\ is_authenticated(last.user))
        => IF last.flight \in DOMAIN flights /\ Satisfies(last.flight, last.query)
           THEN last.status = 200 /\ last.body = {last.flight}
           ELSE last.status = 404

====
